---- MODULE Spec2Model ----
(***************************************************************************)
(* State-machine model of backend/golang/core/tcp: the rate limiter and    *)
(* its admission middleware (middleware.go) and the TCP server (the Server *)
(* of pool.go, lines 45-277).                                              *)
(*                                                                         *)
(* Time is a counter of ticks; TicksPerSec ticks make one second.  Go maps *)
(* are functions whose DOMAIN is the set of keys present.                  *)
(***************************************************************************)
EXTENDS Integers, Sequences, FiniteSets, TLC

\* ------------------------------------------------------------ bounds
TicksPerSec == 2
MaxTimeSteps == 2
NumConns == 2
MaxTotalConns == 13
MaxAttempts == 3
MaxPoolClients == 3
TimeBits == 8
HashBytes == 2
MaxIOBytes == 2
MaxCleanerSteps == 3

\* ------------------------------------------------------------ program constants
defaultRateLimitPerIP == 10
defaultInitialDifficulty == 4
maxDifficulty == 8
banDurationSec == 60
cleanupIntervalSec == 300
defaultMaxConns == 65101

banDuration == banDurationSec * TicksPerSec
Second == TicksPerSec

IPs == {"10.0.0.1"}
Conns == 1..NumConns
\* A deadline of a connection is named after the call that set it.
\* No RateLimiter was made: no cleanup loop, no one to call Stop.
NoCleaner == [loop |-> "none"]
NoDeadline == "none"        \* time.Time{}
IdleDeadline == "idle"      \* pool.go:212  time.Now().Add(s.idleTimeout)

VARIABLES
    now,               \* time.Now(), in ticks
    steps,             \* number of time advances so far (bounded by MaxTimeSteps)
    connectionsPerIP,  \* RateLimiter.connectionsPerIP : ip -> [count, timestamp]
    bannedIPs,         \* RateLimiter.bannedIPs        : ip -> ban end time
    difficulties,      \* RateLimiter.difficulties     : ip -> difficulty
    conns,             \* per-connection handler tasks (Server.handleConnection)
    listener,          \* Server.listener : "nil" | "open" | "closed"
    cancelled,         \* Server.ctx is done
    mu,                \* Server.mu : "free" | "stop"
    wg,                \* Server.wg counter
    currentConns,      \* Server.currentConns
    totalConns,        \* Server.stats.TotalConnections
    activeConns,       \* Server.stats.ActiveConnections
    maxConns,          \* Server.maxConns
    middleware,        \* Server.middleware : "nil" | "generic" | "ratelimit"
    acceptor,          \* position of the acceptConnections goroutine
    stopper,           \* position of the goroutine inside Server.Stop
    ret,               \* the last return of Start / Stop, with the state it was called in
    life,              \* lifecycle reached: created | running | stopping | stopped
    admitLog,          \* ip -> age in ticks -> connections admitted without PoW at that age
    granted,           \* ip -> connections admitted without PoW on the ip's current counter
    swt,               \* the caller of Server.StopWithTimeout: idle | select | its return
    client,            \* Client: conn (0 = nil), ctx, cancel (0 = nil), stats.RetryCount
    ctxs,              \* the contexts created so far: ctxs[k] <=> context k is done
    socks,             \* the sockets dialled so far: open, times closed, state of the peer
    thr,               \* the goroutines that call the client
    pool,              \* ConnectionPool.pool: the clients in the buffered channel
    maxSize,           \* ConnectionPool.maxSize, the capacity of the channel
    pcl,               \* the clients the factory has built: alive | peerGone | closed
    chanClosed,        \* close(p.pool) has run
    pow,               \* the PoW challenge and solution at hand, and the last call on them
    cleaner,           \* RateLimiter.stopCh, RateLimiter.wg, the cleanupLoop goroutine, the caller of Stop
    users              \* the goroutines that call Get and Put

rlVars == <<connectionsPerIP, bannedIPs, difficulties>>
timeVars == <<now, steps>>
srvVars == <<listener, cancelled, mu, maxConns, middleware, acceptor, stopper, ret, life>>
cntVars == <<wg, currentConns, totalConns, activeConns>>
ghostVars == <<admitLog, granted>>
\* What the goroutines of Server and RateLimiter never touch.
cliVars == <<client, ctxs, socks, thr>>
poolVars == <<pool, maxSize, pcl, chanClosed, users>>
powVars == <<pow>>
loopVars == <<cleaner>>
extVars == <<swt, cliVars, poolVars, powVars, loopVars>>
serverVars == <<timeVars, rlVars, conns, srvVars, cntVars, ghostVars>>
vars == <<now, steps, connectionsPerIP, bannedIPs, difficulties, conns, listener,
          cancelled, mu, wg, currentConns, totalConns, activeConns, maxConns,
          middleware, acceptor, stopper, ret, life, admitLog, granted, swt,
          client, ctxs, socks, thr, pool, maxSize, pcl, chanClosed, users, pow,
          cleaner>>

\* ------------------------------------------------------------ Go map operations
Put(m, k, v) == [x \in (DOMAIN m) \cup {k} |-> IF x = k THEN v ELSE m[x]]
Del(m, k) == [x \in (DOMAIN m) \ {k} |-> m[x]]
EmptyMap == [x \in {} |-> 0]

\* ------------------------------------------------------------ time
After(t, u) == t > u
Before(t, u) == t < u

\* ------------------------------------------------------------ connection tasks
FreeConn == [pc |-> "free", ip |-> "", open |-> FALSE, rdl |-> NoDeadline,
             wdl |-> NoDeadline, exists |-> FALSE, banTime |-> 0,
             proceed |-> FALSE, ban |-> FALSE, mwRes |-> "none", handled |-> FALSE,
             pow |-> FALSE, checked |-> FALSE, expired |-> FALSE,
             banAtCheck |-> FALSE, kept |-> FALSE, called |-> FALSE]

\* Mutant: the handler is invoked whatever the middleware returned.
AfterMiddleware_Always(passed) == "handler"

\* middleware.go:180-190: where handleConnection goes when the middleware returned.
AfterMiddleware(passed) == IF passed THEN "handler" ELSE "defer"

\* Mutant: the middleware returns false without closing the connection.
RejectConn_LeavesOpen(t) == [t EXCEPT !.mwRes = "false", !.pc = AfterMiddleware(FALSE)]

\* middleware.go:102-103, 110-111, 125-126, ...: conn.Close(); return false
RejectConn(t) == [t EXCEPT !.open = FALSE, !.mwRes = "false",
                           !.pc = AfterMiddleware(FALSE)]

\* middleware.go:169, 175: return true
AdmitConn(t) == [t EXCEPT !.mwRes = "true", !.pc = AfterMiddleware(TRUE)]

\* ------------------------------------------------------------ rate limiter
\* Mutant: the window lasts one tick too long.
WindowElapsed_Strict(t, ts) == t - ts > Second

\* middleware.go:226  now.Sub(counter.timestamp) >= time.Second
WindowElapsed(t, ts) == t - ts >= Second

\* Mutant: the limit is off by one.
RateExceeded_OffByOne(count) == count > defaultRateLimitPerIP + 1

\* middleware.go:240  counter.count > defaultRateLimitPerIP
RateExceeded(count) == count > defaultRateLimitPerIP

\* middleware.go:201,205  time.Now().After(banTime)
BanExpired(t, banTime) == After(t, banTime)

\* middleware.go:290-298
getDifficultyLocked(diffs, ip) ==
    IF ip \notin DOMAIN diffs THEN defaultInitialDifficulty ELSE diffs[ip]

\* Mutant: the difficulty is raised without a cap.
increaseDifficulty_NoCap(diffs, ip) == Put(diffs, ip, getDifficultyLocked(diffs, ip) + 1)

\* middleware.go:254-263
increaseDifficulty(diffs, ip) ==
    LET currentDifficulty == getDifficultyLocked(diffs, ip) IN
    IF currentDifficulty < maxDifficulty
    THEN Put(diffs, ip, currentDifficulty + 1)
    ELSE diffs

\* middleware.go:267-280
decreaseDifficulty(diffs, ip) ==
    LET currentDifficulty == getDifficultyLocked(diffs, ip) IN
    IF currentDifficulty > defaultInitialDifficulty
    THEN Put(diffs, ip, currentDifficulty - 1)
    ELSE IF currentDifficulty = defaultInitialDifficulty
         THEN Del(diffs, ip)
         ELSE diffs

\* middleware.go:218-250: the maps after the call and the pair it returns.
checkAndUpdateRate(ip) ==
    IF ip \notin DOMAIN connectionsPerIP
       \/ WindowElapsed(now, connectionsPerIP[ip].timestamp)
    THEN [counters |-> Put(connectionsPerIP, ip, [count |-> 1, timestamp |-> now]),
          bans |-> bannedIPs,
          diffs |-> Del(difficulties, ip),
          proceed |-> TRUE, ban |-> FALSE, fresh |-> TRUE]
    ELSE LET count == connectionsPerIP[ip].count + 1 IN
         IF RateExceeded(count)
         THEN [counters |-> Del(connectionsPerIP, ip),
               bans |-> Put(bannedIPs, ip, now + banDuration),
               diffs |-> difficulties,
               proceed |-> FALSE, ban |-> TRUE, fresh |-> FALSE]
         ELSE [counters |-> Put(connectionsPerIP, ip,
                                [count |-> count,
                                 timestamp |-> connectionsPerIP[ip].timestamp]),
               bans |-> bannedIPs,
               diffs |-> difficulties,
               proceed |-> TRUE, ban |-> FALSE, fresh |-> FALSE]

\* Mutant: a ban is removed at its deadline, not after it.
CleanupBans_AtDeadline(t, bans) == [ip \in {i \in DOMAIN bans : t < bans[i]} |-> bans[ip]]

\* Mutant: a counter is removed once it is more than one second old.
CleanupCounters_OneSecond(t, counters) ==
    [ip \in {i \in DOMAIN counters : ~(counters[i].timestamp < t - Second)} |-> counters[ip]]

\* middleware.go:301-341
CleanupBans(t, bans) == [ip \in {i \in DOMAIN bans : ~After(t, bans[i])} |-> bans[ip]]
CleanupCounters(t, counters) ==
    [ip \in {i \in DOMAIN counters : ~Before(counters[i].timestamp, t - 2 * Second)}
        |-> counters[ip]]
CleanupDifficulties(diffs, counters, bans) ==
    [ip \in {i \in DOMAIN diffs : i \in DOMAIN counters \/ i \in DOMAIN bans} |-> diffs[ip]]

\* ------------------------------------------------------------ ghost bookkeeping
Ages == 0..(TicksPerSec - 1)
ShiftLog(log, d) == [a \in Ages |-> IF a - d >= 0 THEN log[a - d] ELSE 0]
RECURSIVE SumLog(_, _)
SumLog(log, a) == IF a < 0 THEN 0 ELSE log[a] + SumLog(log, a - 1)
AdmittedLastSecond(ip) == SumLog(admitLog[ip], TicksPerSec - 1)
BanActive(ip) == ip \in DOMAIN bannedIPs /\ bannedIPs[ip] > now

\* ------------------------------------------------------------ time passes
Tick(d) ==
    /\ steps < MaxTimeSteps
    /\ now' = now + d
    /\ steps' = steps + 1
    /\ admitLog' = [ip \in IPs |-> ShiftLog(admitLog[ip], d)]
    /\ UNCHANGED <<extVars, rlVars, conns, srvVars, cntVars, granted>>

\* ------------------------------------------------------------ Server.handleConnection
\* The goroutines that are not running are interchangeable: a new one takes the
\* lowest free slot.
FreeSlots == {c \in Conns : conns[c].pc = "free"}
LowestFree == IF FreeSlots = {} THEN 0 ELSE CHOOSE c \in FreeSlots : \A d \in FreeSlots : c <= d

\* pool.go:180-191: the cap check, the counters, wg.Add and the go statement.
AcceptorAdmit(c, ip) ==
    IF currentConns >= maxConns
    THEN UNCHANGED <<conns, cntVars>>
    ELSE /\ conns' = [conns EXCEPT ![c] = [FreeConn EXCEPT !.pc = "start", !.ip = ip,
                                                            !.open = TRUE]]
         /\ currentConns' = currentConns + 1
         /\ totalConns' = totalConns + 1
         /\ activeConns' = activeConns + 1
         /\ wg' = wg + 1

\* pool.go:154-191: one round of the accept loop of a running server.
AcceptAndServe(c, ip) ==
    /\ acceptor = "select"
    /\ ~cancelled
    /\ listener = "open"
    /\ c = LowestFree
    /\ totalConns < MaxTotalConns
    /\ AcceptorAdmit(c, ip)
    /\ UNCHANGED <<extVars, timeVars, rlVars, srvVars, ghostVars>>

\* pool.go:212-215: conn.SetDeadline(time.Now().Add(s.idleTimeout)) on an open
\* connection sets the read and the write deadline and returns nil.
SetDeadline(c) ==
    /\ conns[c].pc = "start"
    /\ conns' = [conns EXCEPT ![c].rdl = IdleDeadline,
                              ![c].wdl = IdleDeadline,
                              ![c].pc = "mw"]
    /\ UNCHANGED <<extVars, timeVars, rlVars, srvVars, cntVars, ghostVars>>

\* middleware.go:180-190 with a middleware other than the rate limiter.
ApplyMiddleware(c) ==
    /\ conns[c].pc = "mw"
    /\ middleware \in {"nil", "generic"}
    /\ IF middleware = "nil"
       THEN conns' = [conns EXCEPT ![c].pc = "handler"]
       ELSE \E admit \in BOOLEAN, closes \in BOOLEAN :
               conns' = [conns EXCEPT
                   ![c].mwRes = IF admit THEN "true" ELSE "false",
                   ![c].open = IF admit THEN conns[c].open ELSE ~closes,
                   ![c].pc = AfterMiddleware(admit)]
    /\ UNCHANGED <<extVars, timeVars, rlVars, srvVars, cntVars, ghostVars>>

\* middleware.go:192-199: the read under RLock.
IsBannedRead(c) ==
    /\ conns[c].pc = "mw"
    /\ middleware = "ratelimit"
    /\ LET ip == conns[c].ip IN
       IF ip \in DOMAIN bannedIPs
       THEN conns' = [conns EXCEPT ![c].exists = TRUE, ![c].banTime = bannedIPs[ip],
                                   ![c].pc = "banTime"]
       ELSE conns' = [conns EXCEPT ![c].pc = "rate"]
    /\ UNCHANGED <<extVars, timeVars, rlVars, srvVars, cntVars, ghostVars>>

\* middleware.go:201 and 213-214, then 100-104: the ban is still active, the
\* middleware closes the connection and returns false.
IsBannedExpiry(c) ==
    /\ conns[c].pc = "banTime"
    /\ IF BanExpired(now, conns[c].banTime)
       THEN conns' = [conns EXCEPT ![c].expired = TRUE, ![c].pc = "evict"]
       ELSE conns' = [conns EXCEPT ![c] = RejectConn(conns[c])]
    /\ UNCHANGED <<extVars, timeVars, rlVars, srvVars, cntVars, ghostVars>>

\* Mutant: the expired entry is left in the map.
EvictBan_KeepsEntry(bans, ip, t) == bans

\* Mutant: the entry is deleted without the second look at it.
EvictBan_NoRecheck(bans, ip, t) == Del(bans, ip)

\* middleware.go:203-210: the re-check under the write lock.
EvictBan(bans, ip, t) ==
    IF ip \in DOMAIN bans /\ BanExpired(t, bans[ip]) THEN Del(bans, ip) ELSE bans

IsBannedEvict(c) ==
    /\ conns[c].pc = "evict"
    /\ bannedIPs' = EvictBan(bannedIPs, conns[c].ip, now)
    /\ conns' = [conns EXCEPT ![c].pc = "rate",
                              ![c].kept = conns[c].ip \in DOMAIN bannedIPs']
    /\ UNCHANGED <<extVars, timeVars, connectionsPerIP, difficulties, srvVars, cntVars, ghostVars>>

PoWOutcomes == {"writeErr", "readErr", "invalid", "valid"}

\* middleware.go:107-175: checkAndUpdateRate under the write lock, then what the
\* middleware does with the pair it returned.
CheckAndUpdateRate(c) ==
    /\ conns[c].pc = "rate"
    /\ LET ip == conns[c].ip
           r == checkAndUpdateRate(ip)
           g == IF r.fresh \/ ip \notin DOMAIN r.counters THEN 0 ELSE granted[ip]
           t == [conns[c] EXCEPT !.proceed = r.proceed, !.ban = r.ban,
                                 !.checked = TRUE, !.banAtCheck = BanActive(ip)]
       IN /\ connectionsPerIP' = r.counters
          /\ bannedIPs' = r.bans
          /\ IF r.ban
             THEN \* 108-112
                  /\ conns' = [conns EXCEPT ![c] = RejectConn(t)]
                  /\ difficulties' = r.diffs
                  /\ granted' = [granted EXCEPT ![ip] = g]
                  /\ UNCHANGED admitLog
             ELSE IF ~r.proceed
             THEN \* 113-171: the PoW handshake
                  /\ difficulties' = increaseDifficulty(r.diffs, ip)
                  /\ \E o \in PoWOutcomes :
                       IF o = "valid"
                       THEN conns' = [conns EXCEPT ![c] =
                                         AdmitConn([t EXCEPT !.rdl = NoDeadline,
                                                             !.wdl = NoDeadline,
                                                             !.pow = TRUE])]
                       ELSE conns' = [conns EXCEPT ![c] = RejectConn([t EXCEPT !.pow = TRUE])]
                  /\ granted' = [granted EXCEPT ![ip] = g]
                  /\ UNCHANGED admitLog
             ELSE \* 173-175
                  /\ conns' = [conns EXCEPT ![c] = AdmitConn(t)]
                  /\ difficulties' = r.diffs
                  /\ admitLog' = [admitLog EXCEPT ![ip][0] = @ + 1]
                  /\ granted' = [granted EXCEPT ![ip] = g + 1]
    /\ UNCHANGED <<extVars, timeVars, srvVars, cntVars>>

\* pool.go:218-222: the user handler runs and returns.
Handler(c) ==
    /\ conns[c].pc = "handler"
    /\ conns' = [conns EXCEPT ![c].handled = TRUE, ![c].pc = "defer"]
    /\ UNCHANGED <<extVars, timeVars, rlVars, srvVars, cntVars, ghostVars>>

\* pool.go:201-202: the deferred function starts with
\* atomic.AddInt64(&s.currentConns, -1).
HandleConnectionExit(c) ==
    /\ conns[c].pc = "defer"
    /\ currentConns' = currentConns - 1
    /\ conns' = [conns EXCEPT ![c].pc = "closing"]
    /\ UNCHANGED <<extVars, timeVars, rlVars, srvVars, wg, totalConns, activeConns, ghostVars>>

\* pool.go:203-210: the rest of the deferred function: ActiveConnections - 1,
\* conn.Close(), wg.Done(); the goroutine is gone.
HandleConnectionDone(c) ==
    /\ conns[c].pc = "closing"
    /\ activeConns' = activeConns - 1
    /\ wg' = wg - 1
    /\ conns' = [conns EXCEPT ![c] = FreeConn]
    /\ UNCHANGED <<extVars, timeVars, rlVars, srvVars, currentConns, totalConns, ghostVars>>

\* middleware.go:301-341
Cleanup ==
    /\ LET bans == CleanupBans(now, bannedIPs)
           counters == CleanupCounters(now, connectionsPerIP)
       IN /\ bannedIPs' = bans
          /\ connectionsPerIP' = counters
          /\ difficulties' = CleanupDifficulties(difficulties, counters, bans)
    /\ <<bannedIPs', connectionsPerIP', difficulties'>>
         # <<bannedIPs, connectionsPerIP, difficulties>>
    /\ granted' = [ip \in IPs |-> IF ip \in DOMAIN connectionsPerIP' THEN granted[ip] ELSE 0]
    /\ UNCHANGED <<extVars, timeVars, conns, srvVars, cntVars, admitLog>>

\* ------------------------------------------------------------ specifications
InitTime == now = 0 /\ steps = 0
InitLimiter ==
    /\ connectionsPerIP = EmptyMap
    /\ bannedIPs = EmptyMap
    /\ difficulties = EmptyMap
InitGhost ==
    /\ admitLog = [ip \in IPs |-> [a \in Ages |-> 0]]
    /\ granted = [ip \in IPs |-> 0]
InitCounters == wg = 0 /\ currentConns = 0 /\ totalConns = 0 /\ activeConns = 0
\* ------------------------------------------------------------ errors
\* options.go:74-94: an error is a *ConnectionError {Err, IsRetryable} made by
\* wrapError or a literal, or an fmt.Errorf("...%w") around a cause.
NoErr == [type |-> "nil", cause |-> "nil", retryable |-> FALSE]
wrapError(err, retryable) ==
    [type |-> "ConnectionError", cause |-> err, retryable |-> retryable]
Errorf(what, cause) == [type |-> what, cause |-> cause, retryable |-> FALSE]

\* errors.Is(err, target): the chain of err ends in target.
Is(err, target) == err.cause = target
\* errors.As(err, &connErr)
AsConnectionError(err) == err.type = "ConnectionError"

\* options.go:96-102: of the raw socket errors only a timeout is a net.Error
\* whose Timeout() is true.
isNetworkErrorRetryable(raw) == raw = "timeout"

\* client.go:170-189 and 231-248: what Read / Write make of the raw error of the
\* socket; ctxDone is the select on c.ctx.Done() of line 177 / 238.
IOError(raw, ctxDone) ==
    IF raw = "timeout"
    THEN IF ctxDone THEN [type |-> "ConnectionError", cause |-> "context.Canceled",
                          retryable |-> FALSE]
         ELSE wrapError("ErrTimeout", TRUE)
    ELSE IF raw = "net.ErrClosed"
    THEN wrapError("ErrConnectionClosed", FALSE)
    ELSE wrapError(raw, isNetworkErrorRetryable(raw))

\* ------------------------------------------------------------ Client
Callers == {"a", "b"}
MaxSocks == MaxAttempts + 1
MaxCtxs == MaxAttempts + 1
RetryOps == {"writeRetry", "readRetry"}

IdleThread == [stack |-> <<>>, pc |-> "idle", conn |-> 0, i |-> 0, max |-> 0,
               err |-> NoErr, lastErr |-> NoErr, calls |-> 0,
               done |-> [op |-> "none", err |-> NoErr]]
\* rdl, wdl: a read, write deadline is in force on the socket.
NewSock == [open |-> TRUE, closes |-> 0, peer |-> "up", rdl |-> FALSE, wdl |-> FALSE]
\* client.go:43-75; lastActivity is the call that stamped it last.
NewClient == [conn |-> 0, ctx |-> 1, cancel |-> 1, retryCount |-> 0,
              bytesRead |-> 0, bytesWritten |-> 0, lastActivity |-> <<"new", 0>>]

Top(th) == th.stack[Len(th.stack)]
Pop(th) == [th EXCEPT !.stack = SubSeq(th.stack, 1, Len(th.stack) - 1)]
Push(th, frame, pc) == [th EXCEPT !.stack = Append(th.stack, frame), !.pc = pc]

\* conn.Close() on a socket: net.ErrClosed, which Close ignores, if it was
\* closed; the deadlines of a closed socket are gone with it.
CloseSock(ss, k) == [ss EXCEPT ![k].open = FALSE, ![k].closes = @ + 1,
                               ![k].rdl = FALSE, ![k].wdl = FALSE]

\* The return of the function on top of the stack with error e: the caller goes
\* on up to its next access to the client.
\*   client.go:296-298 (Close returned), 314-325 (Connect returned),
\*   retry.go:23-31 / 80-88 (Write / Read returned), 49-56 / 114-119 and 15, 65 /
\*   72, 134 (Reconnect returned, next round of the loop or its end).
RECURSIVE Return(_, _)
Return(th, e) ==
    LET callee == Top(th)
        up == Pop(th)
    IN IF up.stack = <<>>
       THEN [up EXCEPT !.pc = "idle", !.done = [op |-> callee, err |-> e]]
       ELSE LET caller == Top(up) IN
            IF caller = "reconnect" /\ callee = "close"
            THEN [up EXCEPT !.pc = "r_newctx"]
            ELSE IF caller = "reconnect"
            THEN IF e = NoErr THEN Return(up, NoErr)
                 ELSE [up EXCEPT !.pc = "r_fail", !.err = e]
            ELSE IF callee \in {"write", "read"}
            THEN [up EXCEPT !.pc = IF e = NoErr THEN "a_ok" ELSE "a_fail", !.err = e]
            ELSE IF e # NoErr
            THEN Return(up, Errorf("reconnect failed", e.cause))
            ELSE IF up.i + 1 < up.max
            THEN [up EXCEPT !.i = @ + 1, !.pc = "a_ctx"]
            ELSE Return(up, Errorf("failed after retries", up.lastErr.cause))

Done(k) == ctxs[k]
At(t, frame, pc) == thr[t].stack # <<>> /\ Top(thr[t]) = frame /\ thr[t].pc = pc

\* A goroutine calls a method of the client.
Entry(op) ==
    IF op = "connect" THEN <<<<"connect">>, "c_check">>
    ELSE IF op = "close" THEN <<<<"close">>, "k_swap">>
    ELSE IF op = "reconnect" THEN <<<<"reconnect", "close">>, "k_swap">>
    ELSE IF op \in RetryOps THEN <<<<op>>, "a_ctx">>
    ELSE <<<<op>>, "w_snap">>

\* The bytes the client has counted and may still count are at most MaxIOBytes.
InIO(th) == th.stack # <<>> /\ th.stack[1] \in {"write", "read", "writeRetry", "readRetry"}
BytesBudget ==
    client.bytesRead + client.bytesWritten
        + Cardinality({t \in Callers : InIO(thr[t])}) < MaxIOBytes

Call(t, op, max) ==
    /\ thr[t].pc = "idle"
    /\ op \in {"write", "read", "writeRetry", "readRetry"} => BytesBudget
    /\ thr' = [thr EXCEPT ![t] = [IdleThread EXCEPT !.stack = Entry(op)[1],
                                                     !.pc = Entry(op)[2],
                                                     !.max = max]]
    /\ UNCHANGED <<serverVars, powVars, loopVars, swt, poolVars, client, ctxs, socks>>

OnlyThread(t) == UNCHANGED <<serverVars, powVars, loopVars, swt, poolVars, client, ctxs, socks>>

\* client.go:79-91: Connect, the checks under the read lock.
ConnectCheck(t) ==
    /\ At(t, "connect", "c_check")
    /\ thr' = [thr EXCEPT ![t] =
          IF client.conn # 0
          THEN Return(thr[t], wrapError("already connected", FALSE))
          ELSE IF Done(client.ctx)
          THEN Return(thr[t], wrapError("context.Canceled", FALSE))
          ELSE [thr[t] EXCEPT !.pc = "c_dial"]]
    /\ OnlyThread(t)

\* client.go:93-112: dialer.DialContext(c.ctx, ...) fails at once on a context
\* that is done, and otherwise fails or returns a new socket.
ConnectDial(t) ==
    /\ At(t, "connect", "c_dial")
    /\ IF Done(client.ctx)
       THEN /\ thr' = [thr EXCEPT ![t] =
                         Return(thr[t], wrapError("context.Canceled", FALSE))]
            /\ UNCHANGED socks
       ELSE \E ok \in BOOLEAN :
              IF ok
              THEN /\ Len(socks) < MaxSocks
                   /\ socks' = Append(socks, NewSock)
                   /\ thr' = [thr EXCEPT ![t].conn = Len(socks) + 1,
                                         ![t].pc = "c_install"]
              ELSE /\ thr' = [thr EXCEPT ![t] = Return(thr[t], wrapError("dial", TRUE))]
                   /\ UNCHANGED socks
    /\ UNCHANGED <<serverVars, powVars, loopVars, swt, poolVars, client, ctxs>>

\* Mutant: Connect resets the byte counters for the new connection.
Install_ResetsStats(cl, k) ==
    [cl EXCEPT !.conn = k, !.lastActivity = <<"connect", k>>,
               !.bytesRead = 0, !.bytesWritten = 0]

\* client.go:131-135: c.conn = conn; c.stats.LastActivity = time.Now(); the
\* byte counters are not reset.
Install(cl, k) == [cl EXCEPT !.conn = k, !.lastActivity = <<"connect", k>>]

\* Mutant: Connect does not look at c.conn again after the dial.
EstablishedConcurrently_Unchecked(cl) == FALSE

\* client.go:120  c.conn != nil, under the write lock after the dial.
EstablishedConcurrently(cl) == cl.conn # 0

\* client.go:116-137: Connect, under the write lock.
ConnectInstall(t) ==
    /\ At(t, "connect", "c_install")
    /\ IF EstablishedConcurrently(client)
       THEN /\ socks' = CloseSock(socks, thr[t].conn)
            /\ thr' = [thr EXCEPT ![t] =
                         Return(thr[t], wrapError("established concurrently", FALSE))]
            /\ UNCHANGED client
       ELSE IF Done(client.ctx)
       THEN /\ socks' = CloseSock(socks, thr[t].conn)
            /\ thr' = [thr EXCEPT ![t] =
                         Return(thr[t], wrapError("context.Canceled", FALSE))]
            /\ UNCHANGED client
       ELSE /\ client' = Install(client, thr[t].conn)
            /\ thr' = [thr EXCEPT ![t] = Return(thr[t], NoErr)]
            /\ UNCHANGED socks
    /\ UNCHANGED <<serverVars, powVars, loopVars, swt, poolVars, ctxs>>

\* Mutant: Close leaves the context alone.
CancelCtx_Skipped(cs, k) == cs

\* c.cancel(); c.cancel = nil  (client.go:267-270, 318-321)
CancelCtx(cs, k) == IF k = 0 THEN cs ELSE [cs EXCEPT ![k] = TRUE]

\* Mutant: Close leaves the connection in the client.
SwapOut_KeepsConn(cl) == [cl EXCEPT !.cancel = 0]

\* client.go:269-273  c.cancel = nil; c.conn = nil
SwapOut(cl) == [cl EXCEPT !.cancel = 0, !.conn = 0]

\* client.go:265-279: Close, under the write lock; it returns at once when
\* there was no connection.
CloseSwap(t) ==
    /\ At(t, "close", "k_swap")
    /\ ctxs' = CancelCtx(ctxs, client.cancel)
    /\ client' = SwapOut(client)
    /\ thr' = [thr EXCEPT ![t] =
          IF client.conn = 0 THEN Return(thr[t], NoErr)
          ELSE [thr[t] EXCEPT !.conn = client.conn, !.pc = "k_close"]]
    /\ UNCHANGED <<serverVars, powVars, loopVars, swt, poolVars, socks>>

\* client.go:281-288: conn.Close() on the connection taken out of the client.
CloseSocket(t) ==
    /\ At(t, "close", "k_close")
    /\ socks' = CloseSock(socks, thr[t].conn)
    /\ thr' = [thr EXCEPT ![t] = Return(thr[t], NoErr)]
    /\ UNCHANGED <<serverVars, powVars, loopVars, swt, poolVars, client, ctxs>>

\* client.go:299-314: Reconnect installs a new context and calls Connect.
ReconnectNewCtx(t) ==
    /\ At(t, "reconnect", "r_newctx")
    /\ Len(ctxs) < MaxCtxs
    /\ ctxs' = Append(ctxs, FALSE)
    /\ client' = [client EXCEPT !.ctx = Len(ctxs) + 1, !.cancel = Len(ctxs) + 1]
    /\ thr' = [thr EXCEPT ![t] = Push(thr[t], "connect", "c_check")]
    /\ UNCHANGED <<serverVars, powVars, loopVars, swt, poolVars, socks>>

\* client.go:315-324: Connect failed; Reconnect cancels c.cancel and returns.
ReconnectFail(t) ==
    /\ At(t, "reconnect", "r_fail")
    /\ ctxs' = CancelCtx(ctxs, client.cancel)
    /\ client' = [client EXCEPT !.cancel = 0]
    /\ thr' = [thr EXCEPT ![t] =
                 Return(thr[t], Errorf("reconnect failed during connect", thr[t].err.cause))]
    /\ UNCHANGED <<serverVars, powVars, loopVars, swt, poolVars, socks>>

IOOps == {"write", "read"}
AtIO(t, pc) == \E op \in IOOps : At(t, op, pc)

\* client.go:142-148 / 207-213: the connection is read under the read lock.
IOSnap(t) ==
    /\ AtIO(t, "w_snap")
    /\ thr' = [thr EXCEPT ![t] =
          IF client.conn = 0
          THEN Return(thr[t], wrapError("ErrConnectionClosed", FALSE))
          ELSE [thr[t] EXCEPT !.conn = client.conn, !.pc = "w_ctx"]]
    /\ OnlyThread(t)

\* client.go:151-155 / 216-220: the select on c.ctx.Done() before the I/O.
IOCtx(t) ==
    /\ AtIO(t, "w_ctx")
    /\ thr' = [thr EXCEPT ![t] =
          IF Done(client.ctx)
          THEN Return(thr[t], wrapError("context.Canceled", FALSE))
          ELSE [thr[t] EXCEPT !.pc = "w_dl"]]
    /\ OnlyThread(t)

\* client.go:157-164 / 222-227: conn.SetReadDeadline or conn.SetWriteDeadline
\* on the connection taken at the start; it fails on a closed socket.
IODeadline(t) ==
    /\ AtIO(t, "w_dl")
    /\ IF ~socks[thr[t].conn].open
       THEN /\ thr' = [thr EXCEPT ![t] =
                         Return(thr[t], wrapError("ErrConnectionClosed", FALSE))]
            /\ UNCHANGED socks
       ELSE /\ socks' = IF Top(thr[t]) = "read"
                        THEN [socks EXCEPT ![thr[t].conn].rdl = TRUE]
                        ELSE [socks EXCEPT ![thr[t].conn].wdl = TRUE]
            /\ thr' = [thr EXCEPT ![t].pc = "w_io"]
    /\ UNCHANGED <<serverVars, powVars, loopVars, swt, poolVars, client, ctxs>>

\* What the socket answers to conn.Read or conn.Write ("nil": no error).
RawOutcomes(op, sock) ==
    IF ~sock.open THEN {"net.ErrClosed"}
    ELSE IF sock.peer = "up" THEN {"nil", "timeout", "other"}
    ELSE IF op = "write" THEN {"nil", "ECONNRESET"}
    ELSE {"io.EOF", "ECONNRESET"}

\* Mutant: the deadline is left on the socket when the read or write failed.
ClearDeadline_OnSuccessOnly(ss, k, op, raw) ==
    IF ~ss[k].open \/ raw # "nil" THEN ss
    ELSE IF op = "read" THEN [ss EXCEPT ![k].rdl = FALSE]
    ELSE [ss EXCEPT ![k].wdl = FALSE]

\* client.go:172, 192 / 233, 251: conn.SetReadDeadline(time.Time{}) or
\* conn.SetWriteDeadline(time.Time{}) after the read or write, whatever its
\* outcome raw; it does nothing on a closed socket.
ClearDeadline(ss, k, op, raw) ==
    IF ~ss[k].open THEN ss
    ELSE IF op = "read" THEN [ss EXCEPT ![k].rdl = FALSE]
    ELSE [ss EXCEPT ![k].wdl = FALSE]

\* client.go:168-192 / 230-251: the read or write on the connection taken at
\* the start, the reset of the deadline, and the error made of the outcome.
IODo(t) ==
    /\ AtIO(t, "w_io")
    /\ \E raw \in RawOutcomes(Top(thr[t]), socks[thr[t].conn]) :
          /\ socks' = ClearDeadline(socks, thr[t].conn, Top(thr[t]), raw)
          /\ thr' = [thr EXCEPT ![t] =
                IF raw = "nil" THEN [thr[t] EXCEPT !.pc = "w_stats"]
                ELSE Return(thr[t], IOError(raw, Done(client.ctx)))]
    /\ UNCHANGED <<serverVars, powVars, loopVars, swt, poolVars, client, ctxs>>

\* Mutant: the statistics are updated whatever connection the client holds.
SameConn_Unchecked(cl, k) == TRUE

\* client.go:197 / 255: c.conn == conn.
SameConn(cl, k) == cl.conn = k

\* client.go:194-202 / 253-260: under the write lock, the statistics are
\* updated when the client still holds the connection taken at the start.
IOStats(t) ==
    /\ AtIO(t, "w_stats")
    /\ client' =
          IF ~SameConn(client, thr[t].conn) THEN client
          ELSE IF Top(thr[t]) = "read"
          THEN [client EXCEPT !.bytesRead = @ + 1,
                              !.lastActivity = <<"read", thr[t].conn>>]
          ELSE [client EXCEPT !.bytesWritten = @ + 1,
                              !.lastActivity = <<"write", thr[t].conn>>]
    /\ thr' = [thr EXCEPT ![t] = Return(thr[t], NoErr)]
    /\ UNCHANGED <<serverVars, powVars, loopVars, swt, poolVars, ctxs, socks>>

ClientStep(t) ==
    \/ ConnectCheck(t)
    \/ ConnectDial(t)
    \/ ConnectInstall(t)
    \/ CloseSwap(t)
    \/ CloseSocket(t)
    \/ ReconnectNewCtx(t)
    \/ ReconnectFail(t)
    \/ IOSnap(t)
    \/ IOCtx(t)
    \/ IODeadline(t)
    \/ IODo(t)
    \/ IOStats(t)

\* ------------------------------------------------------------ retry.go
MaxRetryCount == MaxAttempts + 1

\* retry.go:46-47  errors.As(err, &connErr) && connErr.IsRetryable ||
\*                 errors.Is(err, net.ErrClosed) || errors.Is(err, io.EOF)
WriteReconnects(e) ==
    \/ AsConnectionError(e) /\ e.retryable
    \/ Is(e, "net.ErrClosed")
    \/ Is(e, "io.EOF")

\* retry.go:95-102: the *net.OpError in the chain says "read: connection reset
\* by peer" (or "use of closed network connection", which Read has replaced).
isBrokenPipe(e) == Is(e, "ECONNRESET")

\* retry.go:104, the first three operands of the condition.
ReadReconnects(e) ==
    \/ Is(e, "io.EOF")
    \/ Is(e, "ErrConnectionClosed")
    \/ isBrokenPipe(e)

\* retry.go:104, the fourth operand: errors.As(err, new(*ConnectionError)) &&
\* (*new(*ConnectionError)).IsRetryable reads a field through a nil
\* *ConnectionError, a nil pointer dereference, whenever errors.As is true.
ReadPanics(e) == ~ReadReconnects(e) /\ AsConnectionError(e)

Panicked(th) == [th EXCEPT !.stack = <<>>, !.pc = "panicked",
                           !.done = [op |-> "readRetry",
                                     err |-> Errorf("panic", th.lastErr.cause)]]

\* c.Reconnect() called from the retry loop (retry.go:49 / 114); it starts
\* with c.Close() (client.go:296).
CallReconnect(th) == Push(Push(th, "reconnect", "r_close"), "close", "k_swap")

\* for i := 0; i < maxRetries; i++ (retry.go:15, 65 / 72, 134) after a round
\* without reconnect.
NextRound(th) ==
    IF th.i + 1 < th.max THEN [th EXCEPT !.i = @ + 1, !.pc = "a_ctx"]
    ELSE Return(th, Errorf("failed after retries", th.lastErr.cause))

AtRetry(t, pc) == \E op \in RetryOps : At(t, op, pc)

\* retry.go:17-23 / 74-80: the select on c.ctx.Done(), then c.Write or c.Read.
RetryCtx(t) ==
    /\ AtRetry(t, "a_ctx")
    /\ thr' = [thr EXCEPT ![t] =
          IF Done(client.ctx)
          THEN Return(thr[t], Errorf("cancelled by context", "context.Canceled"))
          ELSE Push([thr[t] EXCEPT !.calls = @ + 1],
                    IF Top(thr[t]) = "writeRetry" THEN "write" ELSE "read", "w_snap")]
    /\ OnlyThread(t)

\* retry.go:24-29 / 81-86: success resets the retry count.
RetryOk(t) ==
    /\ AtRetry(t, "a_ok")
    /\ client' = [client EXCEPT !.retryCount = 0]
    /\ thr' = [thr EXCEPT ![t] = Return(thr[t], NoErr)]
    /\ UNCHANGED <<serverVars, powVars, loopVars, swt, poolVars, ctxs, socks>>

\* retry.go:31-35 / 88-92: failure increments it.
RetryFail(t) ==
    /\ AtRetry(t, "a_fail")
    /\ client' = [client EXCEPT !.retryCount = @ + 1]
    /\ thr' = [thr EXCEPT ![t].lastErr = thr[t].err, ![t].pc = "a_sleep"]
    /\ UNCHANGED <<serverVars, powVars, loopVars, swt, poolVars, ctxs, socks>>

\* retry.go:37-62: WriteWithRetry sleeps, unless the context is done, and
\* reconnects or returns the error of the write.
WriteRetrySleep(t) ==
    /\ At(t, "writeRetry", "a_sleep")
    /\ thr' = [thr EXCEPT ![t] =
          IF Done(client.ctx)
          THEN Return(thr[t], Errorf("cancelled by context", "context.Canceled"))
          ELSE IF WriteReconnects(thr[t].lastErr) THEN CallReconnect(thr[t])
          ELSE Return(thr[t], thr[t].lastErr)]
    /\ OnlyThread(t)

\* retry.go:94-131: ReadWithRetry classifies the error, then sleeps, unless the
\* context is done, and reconnects or goes to the next round.
ReadRetrySleep(t) ==
    /\ At(t, "readRetry", "a_sleep")
    /\ thr' = [thr EXCEPT ![t] =
          IF ReadPanics(thr[t].lastErr) THEN Panicked(thr[t])
          ELSE IF Done(client.ctx)
          THEN Return(thr[t], Errorf("cancelled by context", "context.Canceled"))
          ELSE IF ReadReconnects(thr[t].lastErr) THEN CallReconnect(thr[t])
          ELSE NextRound(thr[t])]
    /\ OnlyThread(t)

RetryStep(t) ==
    \/ RetryCtx(t)
    \/ RetryOk(t)
    \/ RetryFail(t)
    \/ WriteRetrySleep(t)
    \/ ReadRetrySleep(t)

\* The peer closes its end of the client's connection.
PeerClose ==
    /\ client.conn # 0
    /\ socks[client.conn].peer = "up"
    /\ socks' = [socks EXCEPT ![client.conn].peer = "closed"]
    /\ UNCHANGED <<serverVars, powVars, loopVars, swt, poolVars, client, ctxs, thr>>

\* ------------------------------------------------------------ ConnectionPool
PoolUsers == {"u1", "u2"}
IdleUser == [pc |-> "idle", c |-> 0, src |-> "none", raw |-> "none",
             deadAtProbe |-> FALSE, res |-> "none"]

\* part_004:41-48: what conn.conn.SetReadDeadline followed by a zero-byte
\* conn.conn.Read reports ("nil": no error, which is what a read of zero bytes
\* reports on an open socket whatever the peer did).
ZeroByteRead(st) ==
    IF st = "alive" THEN {"nil", "timeout"}
    ELSE IF st = "peerGone" THEN {"nil", "io.EOF", "other"}
    ELSE {"net.ErrClosed"}

\* Mutant: the probe finds every client alive.
ping_AlwaysAlive(st, raw) == TRUE

\* part_004:34-68: ping, for a client in state st whose zero-byte read
\* reported raw; "nil" is the nil *Client, a closed client has conn.conn == nil.
ping(st, raw) ==
    IF st \in {"nil", "closed"} THEN FALSE
    ELSE IF raw = "timeout" THEN TRUE
    ELSE IF raw \in {"io.EOF", "net.ErrClosed"} THEN FALSE
    ELSE IF raw # "nil" THEN FALSE
    ELSE TRUE

\* Mutant: the send succeeds on a full channel.
HasRoom_OneMore(q, n) == Len(q) <= n

\* part_004:101-102: the send on the buffered channel is possible.
HasRoom(q, n) == Len(q) < n

OnlyPool == UNCHANGED <<serverVars, powVars, loopVars, swt, cliVars, maxSize>>

\* The state of the client a goroutine holds; 0 is the nil *Client.
StateOf(k) == IF k = 0 THEN "nil" ELSE pcl[k]

\* part_004:70-72, 82-85: Get, the select on the channel; the receive from a
\* closed and drained channel proceeds at once and yields nil.
GetRecv(u) ==
    /\ users[u].pc = "idle"
    /\ users[u].c = 0
    /\ IF pool # <<>>
       THEN /\ pool' = Tail(pool)
            /\ users' = [users EXCEPT ![u] = [IdleUser EXCEPT !.pc = "ping",
                                                               !.c = Head(pool),
                                                               !.src = "pool"]]
       ELSE IF chanClosed
       THEN /\ users' = [users EXCEPT ![u] = [IdleUser EXCEPT !.pc = "ping",
                                                               !.src = "closed"]]
            /\ UNCHANGED pool
       ELSE /\ users' = [users EXCEPT ![u] = [IdleUser EXCEPT !.pc = "factory"]]
            /\ UNCHANGED pool
    /\ UNCHANGED <<pcl, chanClosed>>
    /\ OnlyPool

\* part_004:74-81: the probe, and the return of the client that passed it.
GetPing(u) ==
    /\ users[u].pc = "ping"
    /\ \E raw \in ZeroByteRead(StateOf(users[u].c)) :
          users' = [users EXCEPT ![u].raw = raw,
                                 ![u].deadAtProbe = StateOf(users[u].c) # "alive",
                                 ![u].pc = IF ping(StateOf(users[u].c), raw)
                                           THEN "holding" ELSE "closeDead",
                                 ![u].res = IF ping(StateOf(users[u].c), raw)
                                            THEN "ok" ELSE "none"]
    /\ UNCHANGED <<pool, pcl, chanClosed>>
    /\ OnlyPool

\* part_004:75-78: the client that failed the probe is closed; conn.Close()
\* on the nil *Client dereferences it (client.go:265) and panics.
GetCloseDead(u) ==
    /\ users[u].pc = "closeDead"
    /\ IF users[u].c = 0
       THEN /\ users' = [users EXCEPT ![u].pc = "panicked", ![u].res = "panic"]
            /\ UNCHANGED pcl
       ELSE /\ pcl' = [pcl EXCEPT ![users[u].c] = "closed"]
            /\ users' = [users EXCEPT ![u].pc = "factory", ![u].c = 0]
    /\ UNCHANGED <<pool, chanClosed>>
    /\ OnlyPool

\* part_004:78, 85: return p.factory(): a new connected client, or an error.
GetFactory(u) ==
    /\ users[u].pc = "factory"
    /\ \E ok \in BOOLEAN :
          IF ok
          THEN /\ Len(pcl) < MaxPoolClients
               /\ pcl' = Append(pcl, "alive")
               /\ users' = [users EXCEPT ![u].pc = "holding", ![u].c = Len(pcl) + 1,
                                          ![u].src = IF users[u].src = "pool"
                                                     THEN "replaced" ELSE "factory",
                                          ![u].res = "ok"]
          ELSE /\ users' = [users EXCEPT ![u].pc = "idle", ![u].c = 0, ![u].res = "error"]
               /\ UNCHANGED pcl
    /\ UNCHANGED <<pool, chanClosed>>
    /\ OnlyPool

\* part_004:89-104: Put of the client the caller holds, the select on the send;
\* a send on a closed channel panics.
PoolPut(u) ==
    /\ users[u].pc = "holding"
    /\ IF chanClosed
       THEN /\ users' = [users EXCEPT ![u].pc = "panicked", ![u].res = "panic"]
            /\ UNCHANGED pool
       ELSE IF HasRoom(pool, maxSize)
       THEN /\ pool' = Append(pool, users[u].c)
            /\ users' = [users EXCEPT ![u] = [IdleUser EXCEPT !.res = "put"]]
       ELSE /\ users' = [users EXCEPT ![u].pc = "putClose"]
            /\ UNCHANGED pool
    /\ UNCHANGED <<pcl, chanClosed>>
    /\ OnlyPool

\* part_004:105-109: the channel was full, the client is closed.
PutClose(u) ==
    /\ users[u].pc = "putClose"
    /\ pcl' = [pcl EXCEPT ![users[u].c] = "closed"]
    /\ users' = [users EXCEPT ![u] = [IdleUser EXCEPT !.res = "putClosed"]]
    /\ UNCHANGED <<pool, chanClosed>>
    /\ OnlyPool

\* part_004:114-116: Close, close(p.pool); closing a closed channel panics.
PoolClose(u) ==
    /\ users[u].pc = "idle"
    /\ users[u].c = 0
    /\ IF chanClosed
       THEN /\ users' = [users EXCEPT ![u] = [IdleUser EXCEPT !.pc = "panicked",
                                                               !.res = "panic"]]
            /\ UNCHANGED chanClosed
       ELSE /\ chanClosed' = TRUE
            /\ users' = [users EXCEPT ![u] = [IdleUser EXCEPT !.pc = "drain"]]
    /\ UNCHANGED <<pool, pcl>>
    /\ OnlyPool

\* part_004:119-125: Close, one round of the loop over the closed channel.
PoolDrain(u) ==
    /\ users[u].pc = "drain"
    /\ IF pool # <<>>
       THEN /\ pool' = Tail(pool)
            /\ pcl' = [pcl EXCEPT ![Head(pool)] = "closed"]
            /\ UNCHANGED users
       ELSE /\ users' = [users EXCEPT ![u] = [IdleUser EXCEPT !.res = "poolClosed"]]
            /\ UNCHANGED <<pool, pcl>>
    /\ UNCHANGED chanClosed
    /\ OnlyPool

\* The peer of a pooled or held client closes its end.
PoolPeerGone(k) ==
    /\ k \in DOMAIN pcl
    /\ pcl[k] = "alive"
    /\ pcl' = [pcl EXCEPT ![k] = "peerGone"]
    /\ UNCHANGED <<pool, users, chanClosed>>
    /\ OnlyPool

\* part_004:20-30: NewConnectionPool(factory, maxSize).
NewConnectionPool(size) ==
    /\ pool = <<>> /\ maxSize = size /\ pcl = <<>> /\ chanClosed = FALSE
    /\ users = [u \in PoolUsers |-> IdleUser]

\* ------------------------------------------------------------ proof of work
\* pow.go:45: int64 seconds, which the model keeps at TimeBits bits.
MinInt64 == -(2^(TimeBits - 1))
MaxInt64 == 2^(TimeBits - 1) - 1

\* pow.go:45: signed subtraction, which wraps around.
Sub64(a, b) == ((a - b - MinInt64) % 2^TimeBits) + MinInt64

\* encoding/binary big endian: the byte of weight 256^i of the two's
\* complement of v; i is 0 for the last byte.
ByteOfNat(v, i) == IF i > 3 THEN 0 ELSE (v \div 256^i) % 256
ByteOf(v, i) == IF v >= 0 THEN ByteOfNat(v, i) ELSE 255 - ByteOfNat(-v - 1, i)

\* pow.go:50, 85, 95, 128: binary.BigEndian.PutUint64 and binary.Write of a
\* fixed-size integer, size bytes with the most significant first.
PutInt(v, size) == [k \in 1..size |-> ByteOf(v, size - k)]

RECURSIVE Uint(_)
\* pow.go:134: binary.Read into an unsigned integer.
Uint(bytes) ==
    IF bytes = <<>> THEN 0
    ELSE 256 * Uint(SubSeq(bytes, 1, Len(bytes) - 1)) + bytes[Len(bytes)]

\* pow.go:109, 119: binary.Read into a signed integer.
Sint(bytes) ==
    IF bytes[1] >= 128
    THEN -Uint([k \in 1..Len(bytes) |-> 255 - bytes[k]]) - 1
    ELSE Uint(bytes)

RECURSIVE bitLoop(_, _, _)
\* pow.go:70-76: the loop over the bits of a byte that is not zero.
bitLoop(b, i, zeros) ==
    IF i < 0 THEN zeros
    ELSE IF b \div 2^i = 0 THEN bitLoop(b, i - 1, zeros + 1)
    ELSE zeros

RECURSIVE byteLoop(_, _, _)
\* pow.go:65-79: the loop over the bytes; the first byte that is not zero
\* ends it.
byteLoop(data, k, zeros) ==
    IF k > Len(data) THEN zeros
    ELSE IF data[k] = 0 THEN byteLoop(data, k + 1, zeros + 8)
    ELSE bitLoop(data[k], 7, zeros)

\* pow.go:63-80.
countLeadingZeros(data) == byteLoop(data, 1, 0)

\* pow.go:49-52: the buffer that is hashed.
HashInput(c, n) == PutInt(c.ts, 8) \o c.rand \o PutInt(n, 8)

\* pow.go:44-60: ValidatePoWSolution at time t, hash being
\* sha256.Sum256(HashInput(c, n)).
ValidatePoWSolution(c, hash, t) ==
    IF Sub64(t, c.ts) > 60 THEN FALSE
    ELSE countLeadingZeros(hash) >= c.diff

\* Mutant: the difficulty field leaves before the random bytes.
WritePoWChallenge_DifficultyFirst(c) == PutInt(c.ts, 8) \o PutInt(c.diff, 4) \o c.rand

\* pow.go:83-100: the bytes WritePoWChallenge writes to a writer that takes them.
WritePoWChallenge(c) == PutInt(c.ts, 8) \o c.rand \o PutInt(c.diff, 4)

\* pow.go:102-124: ReadPoWChallenge from a source that holds src and then
\* ends; each of the three reads wants all its bytes.
ReadPoWChallenge(src) ==
    IF Len(src) < 8 THEN [err |-> "failed to read timestamp"]
    ELSE IF Len(src) < 40 THEN [err |-> "failed to read random bytes"]
    ELSE IF Len(src) < 44 THEN [err |-> "failed to read difficulty"]
    ELSE [err |-> "nil",
          c |-> [ts |-> Sint(SubSeq(src, 1, 8)),
                 rand |-> SubSeq(src, 9, 40),
                 diff |-> Sint(SubSeq(src, 41, 44))],
          rest |-> SubSeq(src, 45, Len(src))]

\* pow.go:126-129.
WritePoWSolution(n) == PutInt(n, 8)

\* pow.go:131-138.
ReadPoWSolution(src) ==
    IF Len(src) < 8 THEN [err |-> "failed to read nonce"]
    ELSE [err |-> "nil", n |-> Uint(SubSeq(src, 1, 8)), rest |-> SubSeq(src, 9, Len(src))]

\* The inputs: timestamps and clock readings around the bounds of the 60 s
\* window and of int64, digests of HashBytes bytes, 32 random bytes.
Timestamps == {MinInt64, MinInt64 + 39, -61, -1, 0, 1, 40, MaxInt64}
Nows == {0, 60, 61, 100}
Difficulties == {0, 4, 7, 8, 12, 8 * HashBytes, 8 * HashBytes + 1}
HashByteValues == {0, 1, 2, 16, 127, 128, 255}
Digests == [1..HashBytes -> HashByteValues]
RandomFields == {[k \in 1..32 |-> 0], [k \in 1..32 |-> k], [k \in 1..32 |-> 255]}
Nonces == {0, 1, 255, 256, 65536, 2147483647}
Challenges == [ts : Timestamps, rand : RandomFields, diff : Difficulties]

NoPoW == [op |-> "none"]
InitPoWInputs == \E c \in Challenges, n \in Nonces : pow = [op |-> "new", c |-> c, n |-> n]

OnlyPoW == UNCHANGED <<serverVars, loopVars, swt, cliVars, poolVars>>

\* pow.go:44-60: a call of ValidatePoWSolution.
Validate(hash, t) ==
    /\ pow.op = "new"
    /\ pow' = [op |-> "validate", c |-> pow.c, n |-> pow.n, hash |-> hash, t |-> t,
               res |-> ValidatePoWSolution(pow.c, hash, t)]
    /\ OnlyPoW

\* pow.go:83-124: WritePoWChallenge into a buffer, of which ReadPoWChallenge
\* gets the first len bytes.
ChallengeOverWire(len) ==
    /\ pow.op = "new"
    /\ pow' = [op |-> "challenge", c |-> pow.c, n |-> pow.n,
               wire |-> WritePoWChallenge(pow.c), len |-> len,
               res |-> ReadPoWChallenge(SubSeq(WritePoWChallenge(pow.c), 1, len))]
    /\ OnlyPoW

\* pow.go:126-138: WritePoWSolution into a buffer, of which ReadPoWSolution
\* gets the first len bytes.
SolutionOverWire(len) ==
    /\ pow.op = "new"
    /\ pow' = [op |-> "solution", c |-> pow.c, n |-> pow.n,
               wire |-> WritePoWSolution(pow.n), len |-> len,
               res |-> ReadPoWSolution(SubSeq(WritePoWSolution(pow.n), 1, len))]
    /\ OnlyPoW

\* Nothing outside the server is in use.
InitOthers ==
    /\ swt = "idle"
    /\ pow = NoPoW
    /\ NewConnectionPool(1)
    /\ client = NewClient /\ ctxs = <<FALSE>> /\ socks = <<>>
    /\ thr = [t \in Callers |-> IdleThread]

InitExt == InitOthers /\ cleaner = NoCleaner

\* A started server whose middleware is RateLimitMiddleware(NewRateLimiter(...)).
InitRL ==
    /\ InitTime /\ InitLimiter /\ InitGhost /\ InitCounters /\ InitExt
    /\ conns = [c \in Conns |-> FreeConn]
    /\ listener = "open" /\ cancelled = FALSE /\ mu = "free"
    /\ maxConns = defaultMaxConns
    /\ middleware = "ratelimit"
    /\ acceptor = "select" /\ stopper = "idle"
    /\ ret = [op |-> "none", res |-> "none", pre |-> "created"]
    /\ life = "running"

TaskStep(c) ==
    \/ SetDeadline(c)
    \/ IsBannedRead(c)
    \/ IsBannedExpiry(c)
    \/ IsBannedEvict(c)
    \/ CheckAndUpdateRate(c)
    \/ Handler(c)
    \/ HandleConnectionExit(c)
    \/ HandleConnectionDone(c)

NextRL ==
    \/ \E d \in {1, banDuration} : Tick(d)
    \/ \E c \in Conns, ip \in IPs : AcceptAndServe(c, ip)
    \/ \E c \in Conns : TaskStep(c)
    \/ Cleanup

SpecRL == InitRL /\ [][NextRL]_vars

\* The same server with its connections handled one after the other.
NextSeq ==
    \/ \E d \in {1, banDuration} : Tick(d)
    \/ \E ip \in IPs : AcceptAndServe(1, ip)
    \/ TaskStep(1)
    \/ Cleanup

SpecSeq == InitRL /\ [][NextSeq]_vars

\* The methods of a RateLimiter called one by one: isBanned by the goroutines of
\* Conns, the others in one step each, under the lock.
IsBannedCall(c, ip) ==
    /\ conns[c].pc = "free"
    /\ conns' = [conns EXCEPT ![c] = [FreeConn EXCEPT !.pc = "mw", !.ip = ip]]
    /\ UNCHANGED <<extVars, timeVars, rlVars, srvVars, cntVars, ghostVars>>

\* middleware.go:198, 210, 214: isBanned has returned.
IsBannedReturn(c) ==
    /\ conns[c].pc \in {"rate", "defer"}
    /\ conns' = [conns EXCEPT ![c] = FreeConn]
    /\ UNCHANGED <<extVars, timeVars, rlVars, srvVars, cntVars, ghostVars>>

\* middleware.go:218-250: a call of checkAndUpdateRate.
CheckRateCall(ip) ==
    /\ connectionsPerIP' = checkAndUpdateRate(ip).counters
    /\ bannedIPs' = checkAndUpdateRate(ip).bans
    /\ difficulties' = checkAndUpdateRate(ip).diffs
    /\ UNCHANGED <<extVars, timeVars, conns, srvVars, cntVars, ghostVars>>

IncreaseDifficultyCall(ip) ==
    /\ difficulties' = increaseDifficulty(difficulties, ip)
    /\ UNCHANGED <<extVars, timeVars, connectionsPerIP, bannedIPs, conns, srvVars, cntVars,
                   ghostVars>>

DecreaseDifficultyCall(ip) ==
    /\ difficulties' = decreaseDifficulty(difficulties, ip)
    /\ UNCHANGED <<extVars, timeVars, connectionsPerIP, bannedIPs, conns, srvVars, cntVars,
                   ghostVars>>

IsBannedStep(c) ==
    \/ IsBannedRead(c)
    \/ IsBannedExpiry(c)
    \/ IsBannedEvict(c)
    \/ IsBannedReturn(c)

NextLimiter ==
    \/ \E d \in {1, banDuration} : Tick(d)
    \/ \E c \in Conns, ip \in IPs : IsBannedCall(c, ip)
    \/ \E c \in Conns : IsBannedStep(c)
    \/ \E ip \in IPs : \/ CheckRateCall(ip)
                       \/ IncreaseDifficultyCall(ip)
                       \/ DecreaseDifficultyCall(ip)
    \/ Cleanup

SpecLimiter == InitRL /\ [][NextLimiter]_vars

\* ------------------------------------------------------------ RateLimiter.cleanupLoop
\* middleware.go:19
cleanupInterval == cleanupIntervalSec * TicksPerSec

\* middleware.go:47-58: stopCh is open, wg.Add(1), the loop goroutine is at its
\* select; its ticker has no tick yet.  cleaned is what the last pass counted in
\* cleanedBans, cleanedCounters and cleanedDifficulties (lines 306-307, 327).
NewRateLimiter ==
    [loop |-> "select", pending |-> FALSE, stopCh |-> "open", wg |-> 1,
     stop |-> "idle", cleaned |-> <<0, 0, 0>>]

\* time.Ticker: the channel holds at most one tick; a tick that finds it full is
\* dropped.  The ticker was made at time 0.
TickerDue(t, d) == (t + d) \div cleanupInterval > t \div cleanupInterval

Elapse(d) ==
    /\ steps < MaxCleanerSteps
    /\ now' = now + d
    /\ steps' = steps + 1
    /\ admitLog' = [ip \in IPs |-> ShiftLog(admitLog[ip], d)]
    /\ cleaner' = [cleaner EXCEPT
           !.pending = @ \/ (cleaner.loop # "exited" /\ TickerDue(now, d))]
    /\ UNCHANGED <<swt, cliVars, poolVars, powVars, rlVars, conns, srvVars, cntVars, granted>>

OnlyCleaner ==
    UNCHANGED <<swt, cliVars, poolVars, powVars, timeVars, rlVars, conns, srvVars, cntVars,
                ghostVars>>

\* middleware.go:75-77: the select takes the tick.
LoopTick ==
    /\ cleaner.loop = "select"
    /\ cleaner.pending
    /\ cleaner' = [cleaner EXCEPT !.loop = "cleanup", !.pending = FALSE]
    /\ OnlyCleaner

\* middleware.go:78 and 301-341: the pass the loop runs, under the write lock.
CleanupPass ==
    /\ cleaner.loop = "cleanup"
    /\ LET bans == CleanupBans(now, bannedIPs)
           counters == CleanupCounters(now, connectionsPerIP)
           diffs == CleanupDifficulties(difficulties, counters, bans)
       IN /\ bannedIPs' = bans
          /\ connectionsPerIP' = counters
          /\ difficulties' = diffs
          /\ cleaner' = [cleaner EXCEPT
                 !.loop = "select",
                 !.cleaned = <<Cardinality(DOMAIN bannedIPs \ DOMAIN bans),
                               Cardinality(DOMAIN connectionsPerIP \ DOMAIN counters),
                               Cardinality(DOMAIN difficulties \ DOMAIN diffs)>>]
    /\ granted' = [ip \in IPs |-> IF ip \in DOMAIN connectionsPerIP' THEN granted[ip] ELSE 0]
    /\ UNCHANGED <<swt, cliVars, poolVars, powVars, timeVars, conns, srvVars, cntVars, admitLog>>

\* middleware.go:79-81 and 69: the select takes the closed stopCh; the loop
\* returns and its deferred wg.Done() runs.
LoopStop ==
    /\ cleaner.loop = "select"
    /\ cleaner.stopCh = "closed"
    /\ cleaner' = [cleaner EXCEPT !.loop = "exited", !.wg = @ - 1]
    /\ OnlyCleaner

\* middleware.go:62-63: Stop, close(r.stopCh).
StopCleanup ==
    /\ cleaner.stop = "idle"
    /\ cleaner' = [cleaner EXCEPT !.stopCh = "closed", !.stop = "wait"]
    /\ OnlyCleaner

\* Mutant: Stop returns without waiting for the loop.
WaitReturns_NoWait(n) == TRUE

\* middleware.go:64  r.wg.Wait() returns when the counter is zero.
WaitReturns(n) == n = 0

\* middleware.go:64-66: Stop returns.
StopCleanupReturn ==
    /\ cleaner.stop = "wait"
    /\ WaitReturns(cleaner.wg)
    /\ cleaner' = [cleaner EXCEPT !.stop = "returned"]
    /\ OnlyCleaner

\* A RateLimiter fresh from NewRateLimiter: its methods are called one by one,
\* time passes, the cleanup loop runs, Stop is called once.
InitCleaner ==
    /\ InitTime /\ InitLimiter /\ InitGhost /\ InitCounters /\ InitOthers
    /\ cleaner = NewRateLimiter
    /\ conns = [c \in Conns |-> FreeConn]
    /\ listener = "open" /\ cancelled = FALSE /\ mu = "free"
    /\ maxConns = defaultMaxConns
    /\ middleware = "ratelimit"
    /\ acceptor = "select" /\ stopper = "idle"
    /\ ret = [op |-> "none", res |-> "none", pre |-> "created"]
    /\ life = "running"

LoopStep == LoopTick \/ CleanupPass \/ LoopStop

\* The limiter at work while its loop cleans up: nobody calls Stop.
NextCleaner ==
    \/ \E d \in {1, 2 * Second, banDuration, cleanupInterval} : Elapse(d)
    \/ \E ip \in IPs : IsBannedCall(1, ip)
    \/ IsBannedStep(1)
    \/ \E ip \in IPs : \/ CheckRateCall(ip)
                       \/ IncreaseDifficultyCall(ip)
                       \/ DecreaseDifficultyCall(ip)
    \/ LoopTick
    \/ CleanupPass

SpecCleaner == InitCleaner /\ [][NextCleaner]_vars

\* The loop and one call of Stop, both scheduled as goroutines are.
NextLoopStop ==
    \/ \E d \in {1, 2 * Second, banDuration, cleanupInterval} : Elapse(d)
    \/ \E ip \in IPs : CheckRateCall(ip)
    \/ LoopStep
    \/ StopCleanup
    \/ StopCleanupReturn

SpecLoopStop ==
    /\ InitCleaner
    /\ [][NextLoopStop]_vars
    /\ WF_vars(LoopStep)
    /\ WF_vars(StopCleanupReturn)

\* ------------------------------------------------------------ Server
\* Mutant: only a listener that is still open counts as started.
AlreadyStarted_OnlyWhileOpen == listener = "open"

\* pool.go:131  s.listener != nil
AlreadyStarted == listener # "nil"

\* pool.go:230  s.listener == nil
NotStarted == listener = "nil"

\* pool.go:127-150.  listenOk: net.Listen succeeds.
Start(listenOk) ==
    /\ mu = "free"
    /\ IF AlreadyStarted
       THEN /\ ret' = [op |-> "start", res |-> "alreadyStarted", pre |-> life]
            /\ UNCHANGED <<listener, acceptor, life>>
       ELSE IF ~listenOk
       THEN /\ ret' = [op |-> "start", res |-> "startError", pre |-> life]
            /\ UNCHANGED <<listener, acceptor, life>>
       ELSE /\ listener' = "open"
            /\ acceptor' = "select"
            /\ life' = "running"
            /\ ret' = [op |-> "start", res |-> "ok", pre |-> life]
    /\ UNCHANGED <<extVars, timeVars, rlVars, conns, cntVars, ghostVars, cancelled, mu, maxConns,
                   middleware, stopper>>

\* pool.go:155-164: the select at the top of the accept loop.
AcceptorSelect ==
    /\ acceptor = "select"
    /\ IF cancelled
       THEN /\ listener' = IF listener # "nil" THEN "closed" ELSE listener
            /\ acceptor' = "exited"
       ELSE /\ acceptor' = "accept"
            /\ UNCHANGED listener
    /\ UNCHANGED <<extVars, timeVars, rlVars, conns, cntVars, ghostVars, cancelled, mu, maxConns,
                   middleware, stopper, ret, life>>

\* pool.go:165-178: Accept returns a connection, or an error (always, once the
\* listener is closed); after an error the loop goes on unless the context is done.
AcceptorAccept ==
    /\ acceptor = "accept"
    /\ \E err \in BOOLEAN :
         /\ listener = "closed" => err
         /\ ~err => totalConns < MaxTotalConns
         /\ acceptor' = IF ~err THEN "gotConn"
                         ELSE IF cancelled THEN "exited" ELSE "select"
    /\ UNCHANGED <<extVars, timeVars, rlVars, conns, cntVars, ghostVars, listener, cancelled, mu,
                   maxConns, middleware, stopper, ret, life>>

\* pool.go:180-191: the accepted connection is refused at the cap or handed to
\* a new handleConnection goroutine.
AcceptorHandle(ip) ==
    /\ acceptor = "gotConn"
    /\ currentConns < maxConns => LowestFree # 0
    /\ AcceptorAdmit(LowestFree, ip)
    /\ acceptor' = "select"
    /\ UNCHANGED <<extVars, timeVars, rlVars, ghostVars, listener, cancelled, mu, maxConns,
                   middleware, stopper, ret, life>>

\* pool.go:226-239: Stop up to wg.Wait().  closeErr: listener.Close() fails with
\* an error other than net.ErrClosed, which only an open listener can do.
StopBegin(closeErr) ==
    /\ mu = "free"
    /\ stopper = "idle"
    /\ IF NotStarted
       THEN /\ ret' = [op |-> "stop", res |-> "notStarted", pre |-> life]
            /\ UNCHANGED <<listener, cancelled, mu, stopper, life>>
       ELSE /\ cancelled' = TRUE
            /\ listener' = "closed"
            /\ life' = IF life = "running" THEN "stopping" ELSE life
            /\ IF closeErr /\ listener = "open"
               THEN /\ ret' = [op |-> "stop", res |-> "stopError", pre |-> life]
                    /\ UNCHANGED <<mu, stopper>>
               ELSE /\ mu' = "stop"
                    /\ stopper' = "wait"
                    /\ ret' = [op |-> "stop", res |-> "pending", pre |-> life]
    /\ UNCHANGED <<extVars, timeVars, rlVars, conns, cntVars, ghostVars, maxConns, middleware,
                   acceptor>>

\* pool.go:242: s.wg.Wait() returns when the counter is zero.
StopWait ==
    /\ stopper = "wait"
    /\ wg = 0
    /\ stopper' = "return"
    /\ UNCHANGED <<extVars, timeVars, rlVars, conns, cntVars, ghostVars, listener, cancelled, mu,
                   maxConns, middleware, acceptor, ret, life>>

\* pool.go:243-244 and the deferred Unlock of 228.
StopReturn ==
    /\ stopper = "return"
    /\ stopper' = "idle"
    /\ mu' = "free"
    /\ ret' = [ret EXCEPT !.res = "ok"]
    /\ life' = "stopped"
    /\ UNCHANGED <<extVars, timeVars, rlVars, conns, cntVars, ghostVars, listener, cancelled,
                   maxConns, middleware, acceptor>>

\* A server as NewServer returns it, without middleware or with some middleware,
\* with the default cap or after SetMaxConnections(1) (pool.go:272-276).
InitSrv ==
    /\ InitTime /\ InitLimiter /\ InitGhost /\ InitCounters /\ InitExt
    /\ conns = [c \in Conns |-> FreeConn]
    /\ listener = "nil" /\ cancelled = FALSE /\ mu = "free"
    /\ maxConns \in {1, defaultMaxConns}
    /\ middleware \in {"nil", "generic"}
    /\ acceptor = "none" /\ stopper = "idle"
    /\ ret = [op |-> "none", res |-> "none", pre |-> "created"]
    /\ life = "created"

NextSrv ==
    \/ \E listenOk \in BOOLEAN : Start(listenOk)
    \/ AcceptorSelect
    \/ AcceptorAccept
    \/ \E ip \in IPs : AcceptorHandle(ip)
    \/ \E closeErr \in BOOLEAN : StopBegin(closeErr)
    \/ StopWait
    \/ StopReturn
    \/ \E c \in Conns : \/ SetDeadline(c)
                        \/ ApplyMiddleware(c)
                        \/ Handler(c)
                        \/ HandleConnectionExit(c)
                        \/ HandleConnectionDone(c)

SpecSrv == InitSrv /\ [][NextSrv]_vars

\* ------------------------------------------------------------ faults in a handler
\* pool.go:218-222, middleware.go:182: the middleware or the user handler
\* panics.  handleConnection has deferred one function (pool.go:201-210), and it
\* does not call recover().
Fault(c) ==
    /\ \/ conns[c].pc = "handler"
       \/ conns[c].pc = "mw" /\ middleware = "generic"
    /\ conns' = [conns EXCEPT ![c].pc = "panicking"]
    /\ UNCHANGED <<extVars, timeVars, rlVars, srvVars, cntVars, ghostVars>>

\* pool.go:201-210: the deferred function runs while the goroutine panics.
PanicDeferred(c) ==
    /\ conns[c].pc = "panicking"
    /\ currentConns' = currentConns - 1
    /\ activeConns' = activeConns - 1
    /\ wg' = wg - 1
    /\ conns' = [conns EXCEPT ![c].open = FALSE, ![c].pc = "unrecovered"]
    /\ UNCHANGED <<extVars, timeVars, rlVars, srvVars, totalConns, ghostVars>>

\* The Go runtime: a panic that leaves the goroutine's first function unrecovered
\* ends the program, with every goroutine and the state of the Server.
ProcessExits(c) ==
    /\ conns[c].pc = "unrecovered"
    /\ conns' = [d \in Conns |-> [conns[d] EXCEPT !.pc = "gone"]]
    /\ acceptor' = "gone"
    /\ stopper' = "gone"
    /\ mu' = "gone"
    /\ life' = "crashed"
    /\ UNCHANGED <<extVars, timeVars, rlVars, cntVars, ghostVars, listener, cancelled, maxConns,
                   middleware, ret>>

FaultStep(c) == Fault(c) \/ PanicDeferred(c) \/ ProcessExits(c)

\* The server of SpecSrv with handlers and middlewares that can panic.
NextFault ==
    \/ \E listenOk \in BOOLEAN : Start(listenOk)
    \/ AcceptorSelect
    \/ AcceptorAccept
    \/ \E ip \in IPs : AcceptorHandle(ip)
    \/ \E closeErr \in BOOLEAN : StopBegin(closeErr)
    \/ StopWait
    \/ StopReturn
    \/ \E c \in Conns : \/ SetDeadline(c)
                        \/ ApplyMiddleware(c)
                        \/ Handler(c)
                        \/ HandleConnectionExit(c)
                        \/ HandleConnectionDone(c)
                        \/ FaultStep(c)

SpecFault == InitSrv /\ [][NextFault]_vars

\* ------------------------------------------------------------ Server.StopWithTimeout
\* pool.go:249-255: the timer is armed, the goroutine that calls Stop is
\* started and the caller waits in the select.
StopWithTimeout ==
    /\ swt = "idle"
    /\ swt' = "select"
    /\ UNCHANGED <<serverVars, powVars, loopVars, cliVars, poolVars>>

\* Mutant: the goroutine that calls Stop is abandoned when the caller returns.
StopGoroutineRuns_DiesWithCaller == swt = "select"

\* pool.go:252-254: the goroutine is not tied to the caller: it runs whether
\* StopWithTimeout has returned or not.
StopGoroutineRuns == swt # "idle"

\* pool.go:253: the goroutine calls s.Stop(), once.
StopInBackground(closeErr) ==
    /\ StopGoroutineRuns
    /\ ret.op # "stop"
    /\ StopBegin(closeErr)

\* pool.go:253: Stop has returned in the goroutine, which now sends on done.
StopResultReady == ret.op = "stop" /\ ret.res # "pending"

\* pool.go:257-258: the deadline passes while the caller waits.
StopDeadline ==
    /\ swt = "select"
    /\ swt' = "timeout"
    /\ UNCHANGED <<serverVars, powVars, loopVars, cliVars, poolVars>>

\* pool.go:259-260: the caller receives the result of Stop.
StopDone ==
    /\ swt = "select"
    /\ StopResultReady
    /\ swt' = ret.res
    /\ UNCHANGED <<serverVars, powVars, loopVars, cliVars, poolVars>>

\* pool.go:250-254: where the goroutine of `done <- s.Stop()` is.  done is made
\* without a buffer, so the send completes only together with the receive of
\* line 259: the goroutine has exited when the caller has returned the result of
\* Stop, and is at the send when Stop has returned and nobody has received.
Helper ==
    IF ~StopGoroutineRuns THEN "none"
    ELSE IF ret.op # "stop" THEN "started"
    ELSE IF ~StopResultReady THEN "inStop"
    ELSE IF swt \in {"select", "timeout"} THEN "send"
    ELSE "exited"

\* pool.go:127-150: Start, called before StopWithTimeout is.
StartBeforeStop(listenOk) == swt = "idle" /\ Start(listenOk)

\* A server that is started and then stopped with StopWithTimeout.
InitSWT == InitSrv /\ middleware = "nil" /\ maxConns = defaultMaxConns

HandlerStep(c) ==
    \/ SetDeadline(c)
    \/ ApplyMiddleware(c)
    \/ Handler(c)
    \/ HandleConnectionExit(c)
    \/ HandleConnectionDone(c)

AcceptorStep ==
    \/ AcceptorSelect
    \/ AcceptorAccept
    \/ \E ip \in IPs : AcceptorHandle(ip)

NextSWT ==
    \/ \E listenOk \in BOOLEAN : StartBeforeStop(listenOk)
    \/ AcceptorStep
    \/ \E c \in Conns : HandlerStep(c)
    \/ StopWithTimeout
    \/ \E closeErr \in BOOLEAN : StopInBackground(closeErr)
    \/ StopWait
    \/ StopReturn
    \/ StopDeadline
    \/ StopDone

\* Every goroutine that can run does run; the user handler returns.
SpecSWT ==
    /\ InitSWT /\ [][NextSWT]_vars
    /\ WF_vars(\E closeErr \in BOOLEAN : StopInBackground(closeErr))
    /\ WF_vars(StopWait)
    /\ WF_vars(StopReturn)
    /\ WF_vars(AcceptorStep)
    /\ \A c \in Conns : WF_vars(HandlerStep(c))

\* ------------------------------------------------------------ handlers that call the server
\* pool.go:265-266, 272-273: the user handler calls s.Stats() or
\* s.SetMaxConnections(max), once, and is at the RLock / Lock of s.mu.
ServerCall(c, method) ==
    /\ conns[c].pc = "handler"
    /\ ~conns[c].called
    /\ conns' = [conns EXCEPT ![c].called = TRUE, ![c].pc = method]
    /\ UNCHANGED <<extVars, timeVars, rlVars, srvVars, cntVars, ghostVars>>

\* Mutant: the lock is handed out while Stop holds it.
LockFree_Always(m) == TRUE

\* sync.RWMutex: RLock and Lock return when no writer holds the lock; reads and
\* writes of the handlers are single steps, so only Stop is seen holding it.
LockFree(m) == m = "free"

\* pool.go:266-268, 273-275: the lock is taken, the method does its work and
\* returns to the handler.
ServerCallReturn(c) ==
    /\ conns[c].pc \in {"stats", "setMax"}
    /\ LockFree(mu)
    /\ IF conns[c].pc = "setMax"
       THEN \E max \in {1, defaultMaxConns} : maxConns' = max
       ELSE UNCHANGED maxConns
    /\ conns' = [conns EXCEPT ![c].pc = "handler"]
    /\ UNCHANGED <<extVars, timeVars, rlVars, cntVars, ghostVars, listener, cancelled, mu,
                   middleware, acceptor, stopper, ret, life>>

\* A started server whose handlers may call Stats or SetMaxConnections before
\* they return, and on which Stop is called.  Every goroutine that can run does
\* run; a handler returns once its call of the server has returned.
NextStopLock ==
    \/ \E listenOk \in BOOLEAN : Start(listenOk)
    \/ AcceptorStep
    \/ \E c \in Conns : HandlerStep(c)
    \/ \E c \in Conns, method \in {"stats", "setMax"} : ServerCall(c, method)
    \/ \E c \in Conns : ServerCallReturn(c)
    \/ \E closeErr \in BOOLEAN : StopBegin(closeErr)
    \/ StopWait
    \/ StopReturn

SpecStopLock ==
    /\ InitSWT /\ [][NextStopLock]_vars
    /\ WF_vars(StopWait)
    /\ WF_vars(StopReturn)
    /\ WF_vars(AcceptorStep)
    /\ \A c \in Conns : WF_vars(HandlerStep(c)) /\ WF_vars(ServerCallReturn(c))

\* ------------------------------------------------------------ Client specifications
\* A client as NewClient returns it, called by two goroutines.
InitCli == InitSWT

NextCli ==
    \E t \in Callers :
        \/ \E op \in {"connect", "close", "reconnect", "write", "read"} : Call(t, op, 0)
        \/ ClientStep(t)

SpecCli == InitCli /\ [][NextCli]_vars

\* Two goroutines call Connect and Close on a client as NewClient returns it.
NextConnect ==
    \E t \in Callers :
        \/ \E op \in {"connect", "close"} : Call(t, op, 0)
        \/ ConnectCheck(t)
        \/ ConnectDial(t)
        \/ ConnectInstall(t)
        \/ CloseSwap(t)
        \/ CloseSocket(t)

SpecConnect == InitCli /\ [][NextConnect]_vars

\* The client and the server share no state: a run either uses a client, as in
\* SpecCli, or starts a server that accepts connections.
ClientUntouched ==
    /\ client = NewClient /\ ctxs = <<FALSE>> /\ socks = <<>>
    /\ thr = [t \in Callers |-> IdleThread]
ServerUntouched == listener = "nil" /\ ret.op = "none" /\ acceptor = "none"

UseClient == ServerUntouched /\ NextCli
StartServer(listenOk) == ClientUntouched /\ StartBeforeStop(listenOk)

NextStats ==
    \/ UseClient
    \/ \E listenOk \in BOOLEAN : StartServer(listenOk)
    \/ AcceptorStep
    \/ \E c \in Conns : HandlerStep(c)

SpecStats == InitSWT /\ [][NextStats]_vars

\* A connected client (Connect has returned nil).
Connected ==
    /\ client = [NewClient EXCEPT !.conn = 1]
    /\ ctxs = <<FALSE>>
    /\ socks = <<NewSock>>
    /\ thr = [t \in Callers |-> IdleThread]
    /\ swt = "idle"
    /\ pow = NoPoW
    /\ NewConnectionPool(1)

ServerUnused ==
    /\ InitTime /\ InitLimiter /\ InitGhost /\ InitCounters
    /\ cleaner = NoCleaner
    /\ conns = [c \in Conns |-> FreeConn]
    /\ listener = "nil" /\ cancelled = FALSE /\ mu = "free"
    /\ maxConns = defaultMaxConns
    /\ middleware = "nil"
    /\ acceptor = "none" /\ stopper = "idle"
    /\ ret = [op |-> "none", res |-> "none", pre |-> "created"]
    /\ life = "created"

\* A connected client on which two goroutines read, write and reconnect, and
\* which nobody closes.
InitReconn == ServerUnused /\ Connected

NextReconn ==
    \E t \in Callers :
        \/ \E op \in {"reconnect", "write", "read"} : Call(t, op, 0)
        \/ ClientStep(t)

SpecReconn == InitReconn /\ [][NextReconn]_vars

\* A client, connected or not, on which goroutine "a" reads and writes with
\* retry while goroutine "b" may close it and the peer may go away.
InitRetry == ServerUnused /\ (Connected \/ InitExt)

RetryCall(t, op, max) ==
    /\ client.retryCount + max <= MaxRetryCount
    /\ Call(t, op, max)

NextRetry ==
    \/ \E op \in RetryOps, max \in 1..MaxAttempts : RetryCall("a", op, max)
    \/ Call("b", "close", 0)
    \/ \E t \in Callers : ClientStep(t)
    \/ RetryStep("a")
    \/ PeerClose

SpecRetry == InitRetry /\ [][NextRetry]_vars

\* A pool of capacity 1 or 2 used by two goroutines.
ClientUnused ==
    /\ swt = "idle"
    /\ pow = NoPoW
    /\ client = NewClient /\ ctxs = <<FALSE>> /\ socks = <<>>
    /\ thr = [t \in Callers |-> IdleThread]

InitPool == ServerUnused /\ ClientUnused /\ \E size \in {1, 2} : NewConnectionPool(size)

NextPool ==
    \/ \E u \in PoolUsers : \/ GetRecv(u)
                             \/ GetPing(u)
                             \/ GetCloseDead(u)
                             \/ GetFactory(u)
                             \/ PoolPut(u)
                             \/ PutClose(u)
    \/ \E k \in 1..MaxPoolClients : PoolPeerGone(k)

SpecPool == InitPool /\ [][NextPool]_vars

\* Each of the PoW functions applied once to every input of the bounded sets.
InitPoW ==
    /\ ServerUnused
    /\ swt = "idle"
    /\ client = NewClient /\ ctxs = <<FALSE>> /\ socks = <<>>
    /\ thr = [t \in Callers |-> IdleThread]
    /\ NewConnectionPool(1)
    /\ InitPoWInputs

NextPoW ==
    \/ \E hash \in Digests, t \in Nows : Validate(hash, t)
    \/ \E len \in 0..44 : ChallengeOverWire(len)
    \/ \E len \in 0..8 : SolutionOverWire(len)

SpecPoW == InitPoW /\ [][NextPoW]_vars

\* The same pool, which its users may also Close.
NextPoolClose ==
    \/ \E u \in PoolUsers : \/ GetRecv(u)
                             \/ GetPing(u)
                             \/ GetCloseDead(u)
                             \/ GetFactory(u)
                             \/ PoolPut(u)
                             \/ PutClose(u)
                             \/ PoolClose(u)
                             \/ PoolDrain(u)
    \/ \E k \in 1..MaxPoolClients : PoolPeerGone(k)

SpecPoolClose == InitPool /\ [][NextPoolClose]_vars

\* ------------------------------------------------------------ claims
Admitted(c) == conns[c].pc = "handler" /\ conns[c].mwRes = "true"
Returned(c) == conns[c].pc \in {"handler", "defer"} /\ conns[c].mwRes # "none"

\* C1: while a ban entry for s exists with banUntil[s] > now, no connection from
\* s gets past the ban check: checkAndUpdateRate never runs, so no connection is
\* admitted and no rate counter is updated, under every interleaving.
C1_BanSuppressesRate == \A c \in Conns : ~conns[c].banAtCheck

\* C2 (as stated): in every interval of one second, aligned with a counter's
\* window or not, at most ratePerSec connections of one source are admitted
\* without PoW.
C2_AnySecond == \A ip \in IPs : AdmittedLastSecond(ip) <= defaultRateLimitPerIP

\* C2 (amended): on every rate counter of a source, from its creation to its
\* reset or removal, at most ratePerSec connections are admitted without PoW.
C2_PerCounter == \A ip \in IPs : granted[ip] <= defaultRateLimitPerIP

C2_Witness ==
    \E ip \in IPs : /\ AdmittedLastSecond(ip) > defaultRateLimitPerIP
                     /\ granted[ip] = defaultRateLimitPerIP

\* C3: checkAndUpdateRate returns (not allow-direct, no ban) in some reachable
\* state, so the PoW handshake of the middleware is reached: once the server
\* has served MaxTotalConns connections, some connection went through it.
C3_PoWReached ==
    (totalConns = MaxTotalConns /\ \A c \in Conns : conns[c].pc = "free")
        => \E ip \in IPs : ip \in DOMAIN difficulties

\* What the code does instead: no call returns (FALSE, FALSE), no connection
\* enters the handshake and no difficulty is ever stored.
C3_NeverPoW ==
    /\ difficulties = EmptyMap
    /\ \A c \in Conns : ~conns[c].pow /\ (conns[c].checked => conns[c].proceed # conns[c].ban)

\* C4: within one window the k-th call of checkAndUpdateRate returns (allow, no
\* ban) for k <= ratePerSec and stores count k; call ratePerSec + 1 returns
\* (reject, ban), installs banUntil[ip] = now + banDuration and removes the counter.
C4_KthCall ==
    [][\A c \in Conns :
        (conns[c].pc = "rate" /\ conns'[c].pc # "rate") =>
            LET ip == conns[c].ip
                inWindow == /\ ip \in DOMAIN connectionsPerIP
                            /\ now - connectionsPerIP[ip].timestamp < Second
                k == IF inWindow THEN connectionsPerIP[ip].count + 1 ELSE 1
            IN /\ k <= defaultRateLimitPerIP =>
                    /\ conns'[c].proceed /\ ~conns'[c].ban
                    /\ ip \in DOMAIN connectionsPerIP'
                    /\ connectionsPerIP'[ip].count = k
                    /\ bannedIPs' = bannedIPs
               /\ k = defaultRateLimitPerIP + 1 =>
                    /\ ~conns'[c].proceed /\ conns'[c].ban
                    /\ ip \in DOMAIN bannedIPs'
                    /\ bannedIPs'[ip] = now + banDuration
                    /\ ip \notin DOMAIN connectionsPerIP'
               /\ k <= defaultRateLimitPerIP + 1]_vars

C4_Witness ==
    \E c \in Conns : /\ Returned(c) /\ conns[c].ban
                      /\ conns[c].ip \notin DOMAIN connectionsPerIP
                      /\ bannedIPs[conns[c].ip] = now + banDuration

\* C5: one source, connections one after the other.  Within the first second
\* connections 1..10 are admitted, the 11th installs a ban and is rejected, the
\* 12th is rejected by the ban check and never reaches the rate counter; a
\* connection that finds the ban deadline passed is admitted and the expired
\* entry is removed.  (Stated of the step in which the middleware returns.)
C5_Burst ==
    [][\A c \in Conns :
        (conns[c].mwRes = "none" /\ conns'[c].mwRes # "none") =>
            LET t == conns'[c]
                k == totalConns
            IN /\ now < Second =>
                    /\ k <= defaultRateLimitPerIP => t.mwRes = "true" /\ t.checked
                    /\ k = defaultRateLimitPerIP + 1 =>
                          /\ t.mwRes = "false" /\ t.checked /\ t.ban
                          /\ t.ip \in DOMAIN bannedIPs'
                          /\ bannedIPs'[t.ip] = now + banDuration
                    /\ k = defaultRateLimitPerIP + 2 =>
                          /\ t.mwRes = "false" /\ ~t.checked
                          /\ connectionsPerIP' = connectionsPerIP
                          /\ t.ip \notin DOMAIN connectionsPerIP
               /\ t.expired => t.mwRes = "true" /\ t.ip \notin DOMAIN bannedIPs']_vars

C5_Witness ==
    \E c \in Conns : /\ Returned(c) /\ conns[c].expired /\ conns[c].mwRes = "true"
                      /\ totalConns = defaultRateLimitPerIP + 3
                      /\ now = banDuration + 1

\* C6 (as stated): admit returning false has closed the connection; admit
\* returning true leaves it open with no read or write deadline set.
C6_DeadlinesCleared ==
    \A c \in Conns :
        /\ conns[c].mwRes = "false" => ~conns[c].open
        /\ Admitted(c) => /\ conns[c].open
                          /\ conns[c].rdl = NoDeadline
                          /\ conns[c].wdl = NoDeadline

\* C6 (amended): admit returning false has closed the connection; admit
\* returning true leaves it open; after a PoW handshake no deadline is set, and
\* on the direct within-rate path the idle deadline the server set is still set.
C6_AdmitContract ==
    \A c \in Conns :
        /\ conns[c].mwRes = "false" => ~conns[c].open
        /\ Admitted(c) =>
              /\ conns[c].open
              /\ conns[c].pow => conns[c].rdl = NoDeadline /\ conns[c].wdl = NoDeadline
              /\ ~conns[c].pow => /\ conns[c].rdl = IdleDeadline
                                  /\ conns[c].wdl = IdleDeadline

C6_Witness ==
    /\ \E c \in Conns : Admitted(c) /\ conns[c].rdl # NoDeadline
    /\ \E c \in Conns : conns[c].mwRes = "false" /\ conns[c].ban

C8_StopSynchronous ==
    [][(stopper = "return" /\ stopper' = "idle") =>
          /\ wg' = 0
          /\ activeConns' = 0
          /\ \A c \in Conns : conns'[c].pc = "free"]_vars

\* C9: once Stop has returned ok, no connection is handed to a handler task any
\* more and the number of active connections stays 0.
C9_NoServeAfterStop ==
    [][life = "stopped" =>
          /\ totalConns' = totalConns
          /\ activeConns' = 0
          /\ \A c \in Conns : conns[c].pc = "free" => conns'[c].pc = "free"]_vars

\* C10: the lifecycle is created -> running -> stopping -> stopped; Start
\* succeeds only in created; Start in any other state returns "already started"
\* and changes nothing; Stop on a server never started returns "not started".
ServerState == <<listener, cancelled, mu, wg, currentConns, totalConns, activeConns,
                 maxConns, middleware, acceptor, stopper, life, conns>>

C10_Lifecycle ==
    [][/\ (ret' # ret /\ ret'.op = "start") =>
            /\ ret'.pre = life
            /\ ret'.res = "ok" => life = "created" /\ life' = "running"
            /\ life # "created" => ret'.res = "alreadyStarted" /\ ServerState' = ServerState
       /\ (ret' # ret /\ ret'.op = "stop" /\ ret'.res # "ok" /\ life = "created") =>
            ret'.res = "notStarted" /\ ServerState' = ServerState
       /\ life' # life =>
            <<life, life'>> \in {<<"created", "running">>, <<"running", "stopping">>,
                                 <<"stopping", "stopped">>}]_vars

C10_Witness ==
    ret = [op |-> "start", res |-> "alreadyStarted", pre |-> "stopped"]

\* C11: with maxConns unchanged, activeConns <= maxConns in every reachable
\* state, and a connection accepted while activeConns >= maxConns is closed at
\* once: no handler task is spawned for it (so neither middleware nor handler
\* runs) and no counter is incremented.
C11_CapRespected ==
    /\ [](activeConns <= maxConns)
    /\ [][(acceptor = "gotConn" /\ acceptor' = "select" /\ activeConns >= maxConns) =>
            conns' = conns /\ cntVars' = cntVars]_vars

\* What the code keeps within the cap is currentConns, the counter it tests.
C11_CurrentWithinCap == currentConns <= maxConns

\* C12 (as stated): StopWithTimeout returns Timeout if the handlers have not
\* all exited within d: a return other than Timeout finds every handler gone.
C12_ResultOnlyWhenHandlersGone ==
    [][(swt = "select" /\ swt' \notin {"select", "timeout"}) =>
          wg = 0 /\ \A c \in Conns : conns[c].pc = "free"]_vars

\* C12 (amended): StopWithTimeout returns Timeout or the result of the Stop it
\* started, which has returned by then; after a Timeout that Stop goes on in
\* the background and, unless it returns NotStarted or StopError, the server
\* reaches stopped with the stop signal set and the listener closed.
C12_TimeoutOrStopResult ==
    /\ [][(swt = "select" /\ swt' # "select") =>
            \/ swt' = "timeout"
            \/ ret.op = "stop" /\ ret.res # "pending" /\ swt' = ret.res]_vars
    /\ (swt = "timeout") ~>
            (life = "stopped" \/ (ret.op = "stop" /\ ret.res \in {"notStarted", "stopError"}))
    /\ []((swt = "timeout" /\ life = "stopped") => listener = "closed" /\ cancelled)

C12_Witness ==
    /\ swt = "timeout" /\ life = "stopped" /\ totalConns > 0
    /\ wg = 0 /\ listener = "closed"

\* The error with which the function that thread th was in has just returned.
Returned_err(th) == IF th.pc = "idle" THEN th.done.err ELSE th.err

C14_ReconnectedScopeLive ==
    /\ [](client.conn # 0 => ~Done(client.ctx))
    /\ [][\A t \in Callers :
            (AtIO(t, "w_io") /\ thr'[t] # thr[t] /\ ~socks[thr[t].conn].open) =>
                Returned_err(thr'[t]) = wrapError("ErrConnectionClosed", FALSE)]_vars

\* The step in which the retry loop of t, its context not done, decides what to
\* do about the error of its last attempt.
Decides(t) == AtRetry(t, "a_sleep") /\ thr'[t] # thr[t] /\ ~Done(client.ctx)
Reconnecting(th) == \E k \in DOMAIN th.stack : th.stack[k] = "reconnect"
ErrorsOf(th) == {th.err, th.lastErr, th.done.err}

\* C15: connection-closed and EOF failures are not flagged retryable but are
\* reconnectable: when the read or write failed with one of them, both
\* ReadWithRetry and WriteWithRetry call Reconnect instead of returning the
\* error; a failure caused by cancellation is never flagged retryable.
C15_ClosedAndEOFReconnect ==
    /\ [][\A t \in Callers :
            (Decides(t) /\ thr[t].lastErr.cause \in {"ErrConnectionClosed", "io.EOF"}) =>
                ~thr[t].lastErr.retryable /\ Reconnecting(thr'[t])]_vars
    /\ [](\A t \in Callers : \A e \in ErrorsOf(thr[t]) :
             e.cause = "context.Canceled" => ~e.retryable)

\* C16: WriteWithRetry and ReadWithRetry make at most maxAttempts calls of
\* Write / Read and always terminate by returning; when every attempt failed
\* with a reconnectable error and every Reconnect succeeded (the last one
\* included), they return the exhausted-retries error that wraps the cause of
\* the last failed attempt.
C16_BoundedAndExhausts ==
    /\ [](\A t \in Callers : thr[t].calls <= thr[t].max /\ thr[t].pc # "panicked")
    /\ [][\A t \in Callers :
            (At(t, "connect", "c_install") /\ thr[t].stack[1] \in RetryOps
               /\ thr'[t].pc = "idle" /\ thr'[t].done.err # NoErr /\ client'.conn # 0) =>
                /\ thr'[t].done.err = Errorf("failed after retries", thr[t].lastErr.cause)
                /\ thr[t].calls = thr[t].max]_vars

\* C17: the peer has closed the socket and the first Write of
\* WriteWithRetry(maxAttempts = 3) fails with connection reset: WriteWithRetry
\* reconnects (and goes on to a second attempt); on any success the retry
\* count of the client is reset to 0.
C17_ResetReconnects ==
    /\ [][\A t \in Callers :
            (At(t, "writeRetry", "a_sleep") /\ Decides(t)
               /\ thr[t].lastErr.cause = "ECONNRESET" /\ thr[t].i = 0 /\ thr[t].max = 3) =>
                Reconnecting(thr'[t])]_vars
    /\ [][\A t \in Callers :
            (AtRetry(t, "a_ok") /\ thr'[t] # thr[t]) =>
                client'.retryCount = 0 /\ thr'[t].done.err = NoErr]_vars

\* C18: when the read or write failed with an error that is neither flagged
\* retryable nor an EOF, closed or reset connection error, WriteWithRetry and
\* ReadWithRetry both return that error at once: no reconnect, no further
\* attempt.
C18_NonRetryableReturns ==
    [][\A t \in Callers :
         (Decides(t) /\ ~thr[t].lastErr.retryable /\ ~ReadReconnects(thr[t].lastErr)) =>
             /\ thr'[t].pc = "idle"
             /\ thr'[t].done.err = thr[t].lastErr
             /\ client' = client /\ socks' = socks]_vars

\* C19 (as stated): Get on an empty buffer returns the factory's result; on a
\* buffer with an entry it removes and probes the entry and returns it when the
\* probe says alive, and otherwise closes it and returns a client from the
\* factory; a dead client is never returned to the caller.
C19_NeverReturnsDead ==
    \A u \in PoolUsers :
        (users[u].pc = "holding" /\ users[u].src = "pool") => ~users[u].deadAtProbe

\* C19 (amended): the client Get returns from the buffer has been removed from
\* it, is not closed and has passed the probe (its zero-byte read reported a
\* timeout or no error); the client that failed the probe is closed and
\* replaced by the factory's result; on an empty buffer the result is the
\* factory's.
C19_GetContract ==
    /\ [](\A u \in PoolUsers :
            /\ (users[u].pc = "holding" /\ users[u].src = "pool") =>
                  /\ users[u].raw \in {"nil", "timeout"}
                  /\ pcl[users[u].c] # "closed"
                  /\ \A k \in DOMAIN pool : pool[k] # users[u].c
            /\ users[u].pc = "closeDead" =>
                  /\ users[u].raw \notin {"nil", "timeout"}
                  /\ \A k \in DOMAIN pool : pool[k] # users[u].c)
    /\ [][\A u \in PoolUsers :
            /\ (users[u].pc = "idle" /\ users'[u].pc # "idle") =>
                  IF pool = <<>> THEN users'[u].pc = "factory" /\ pool' = pool
                  ELSE /\ users'[u].pc = "ping" /\ users'[u].c = Head(pool)
                       /\ pool' = Tail(pool)
            /\ (users[u].pc = "closeDead" /\ users'[u].pc # "closeDead") =>
                  users'[u].pc = "factory" /\ pcl'[users[u].c] = "closed"
            /\ (users[u].pc = "factory" /\ users'[u].pc = "holding") =>
                  /\ users'[u].c = Len(pcl) + 1
                  /\ pcl'[users'[u].c] = "alive"]_vars

C19_Witness ==
    \E u \in PoolUsers, v \in PoolUsers :
        /\ users[u].pc = "holding" /\ users[u].src = "pool" /\ users[u].deadAtProbe
        /\ users[v].pc = "holding" /\ users[v].src = "replaced"
        /\ \E k \in DOMAIN pcl : pcl[k] = "closed"

\* C20: under every interleaving of Get and Put the number of idle clients is
\* at most maxSize; a Put that finds the buffer full closes its argument and
\* leaves the buffer unchanged; a Put that finds room inserts the client
\* without closing it.
C20_PoolBounded ==
    /\ [](Len(pool) <= maxSize)
    /\ [][\A u \in PoolUsers :
            /\ (users[u].pc = "holding" /\ users'[u].pc # "holding") =>
                  IF Len(pool) >= maxSize
                  THEN pool' = pool /\ users'[u].pc = "putClose"
                  ELSE /\ pool' = Append(pool, users[u].c)
                       /\ pcl' = pcl /\ users'[u].pc = "idle"
            /\ (users[u].pc = "putClose" /\ users'[u].pc # "putClose") =>
                  /\ pcl'[users[u].c] = "closed"
                  /\ pool' = pool
                  /\ users'[u].res = "putClosed"]_vars

C20_Witness ==
    /\ Len(pool) = maxSize
    /\ \E u \in PoolUsers : users[u].res = "putClosed"
    /\ \E u \in PoolUsers : users[u].res = "put"
    /\ \E k \in DOMAIN pcl : pcl[k] = "closed"
    /\ pcl[pool[1]] # "closed"

\* C21: a Get issued after the pool's Close returns an error to the caller; it
\* does not fault and does not return a client.
C21_GetAfterCloseErrors ==
    \A u \in PoolUsers :
        users[u].src = "closed" =>
            /\ users[u].pc # "panicked"
            /\ users[u].pc # "holding"

\* C22: Close closes every client that was idle in the pool and leaves the
\* buffer empty; a Put issued after or during Close closes its argument and
\* does not fault.
C22_CloseDrainsPutCloses ==
    /\ [](\A u \in PoolUsers :
            users[u].res = "poolClosed" => pool = <<>>)
    /\ [][\A u \in PoolUsers :
            /\ (users[u].pc = "drain" /\ pool # <<>> /\ users'[u] = users[u] /\ pool' # pool)
                  => pcl'[Head(pool)] = "closed"
            /\ (users[u].pc = "holding" /\ chanClosed /\ users'[u].pc # "holding")
                  => users'[u].pc = "putClose"]_vars

\* The number of leading zero bits of a byte string: one less than the
\* position of its first bit that is 1.
BitAt(data, j) == (data[((j - 1) \div 8) + 1] \div 2^(7 - ((j - 1) % 8))) % 2
LeadingZeroBits(data) ==
    IF \A j \in 1..(8 * Len(data)) : BitAt(data, j) = 0 THEN 8 * Len(data)
    ELSE (CHOOSE j \in 1..(8 * Len(data)) :
             /\ BitAt(data, j) = 1
             /\ \A k \in 1..(j - 1) : BitAt(data, k) = 0) - 1

\* C23: for all challenges c, nonces n and times t, validate(c, n, t) = true
\* implies leadingZeroBits(hash) >= c.difficulty and t - c.ts <= 60; at age 60
\* a solution with enough leading zero bits is accepted, at age 61 every
\* solution is rejected, and with difficulty 0 every nonce is accepted while
\* the challenge is fresh.
C23_ValidateSound ==
    pow.op = "validate" =>
        /\ pow.res => /\ LeadingZeroBits(pow.hash) >= pow.c.diff
                      /\ pow.t - pow.c.ts <= 60
        /\ (pow.t - pow.c.ts = 60 /\ LeadingZeroBits(pow.hash) >= pow.c.diff) => pow.res
        /\ pow.t - pow.c.ts = 61 => ~pow.res
        /\ (pow.c.diff = 0 /\ pow.t - pow.c.ts \in 0..60) => pow.res

\* C24: for every challenge c with a 32-byte random field,
\* readChallenge(writeChallenge(c)) = c and exactly 44 bytes are written in the
\* order timestamp (8), random (32), difficulty (4); for every solution s,
\* readSolution(writeSolution(s)) = s with exactly 8 bytes; a source that holds
\* fewer bytes than the record yields an error and no record.
C24_WireRoundTrip ==
    /\ pow.op = "challenge" =>
          /\ Len(pow.wire) = 44
          /\ Sint(SubSeq(pow.wire, 1, 8)) = pow.c.ts
          /\ SubSeq(pow.wire, 9, 40) = pow.c.rand
          /\ Sint(SubSeq(pow.wire, 41, 44)) = pow.c.diff
          /\ \A k \in 1..44 : pow.wire[k] \in 0..255
          /\ IF pow.len = 44
             THEN pow.res.err = "nil" /\ pow.res.c = pow.c /\ pow.res.rest = <<>>
             ELSE pow.res.err # "nil" /\ DOMAIN pow.res = {"err"}
    /\ pow.op = "solution" =>
          /\ Len(pow.wire) = 8
          /\ \A k \in 1..8 : pow.wire[k] \in 0..255
          /\ IF pow.len = 8
             THEN pow.res.err = "nil" /\ pow.res.n = pow.n /\ pow.res.rest = <<>>
             ELSE pow.res.err # "nil" /\ DOMAIN pow.res = {"err"}

C24_Witness ==
    /\ pow.op = "challenge"
    /\ pow.len = 44
    /\ pow.c.ts < 0
    /\ pow.c.diff = 12
    /\ pow.c.rand[2] = 2
    /\ pow.res.err = "nil"
    /\ pow.res.c = pow.c
    /\ pow.wire[1] = 255
    /\ pow.wire[44] = 12

\* C25: across any sequence of connect, read, write, close and reconnect on a
\* client, bytesRead and bytesWritten never decrease (connect and reconnect do
\* not reset them); across any sequence of accepts on a server,
\* totalConnections never decreases.
C25_StatsMonotone ==
    [][/\ client'.bytesRead >= client.bytesRead
       /\ client'.bytesWritten >= client.bytesWritten
       /\ totalConns' >= totalConns]_vars

C25_Witness ==
    /\ client.bytesRead >= 1
    /\ client.bytesWritten >= 1
    /\ client.conn >= 2
    /\ client.lastActivity = <<"connect", client.conn>>

\* C27: if the client's connection was swapped (by Close or Reconnect) between
\* the moment Read or Write took it and the moment its I/O completed, the call
\* leaves bytesRead, bytesWritten and lastActivity unchanged; they are updated
\* only when the client's connection is the one that was taken.
C27_StatsOnlyForSameConn ==
    [][\A t \in Callers :
          (thr[t].pc = "w_stats" /\ thr'[t] # thr[t]) =>
             IF client.conn # thr[t].conn
             THEN client' = client
             ELSE /\ client'.lastActivity = <<Top(thr[t]), thr[t].conn>>
                  /\ client'.bytesRead =
                        client.bytesRead + (IF Top(thr[t]) = "read" THEN 1 ELSE 0)
                  /\ client'.bytesWritten =
                        client.bytesWritten + (IF Top(thr[t]) = "write" THEN 1 ELSE 0)]_vars

C27_Witness ==
    \E t \in Callers :
        /\ thr[t].pc = "idle"
        /\ thr[t].done = [op |-> "read", err |-> NoErr]
        /\ client.bytesRead = 0
        /\ client.lastActivity[1] # "read"
        /\ client.conn # thr[t].conn

\* A call of Read (Write) is between its SetReadDeadline (SetWriteDeadline)
\* and the end of its read (write) on socket k.
InWindow(op, k) == \E t \in Callers : At(t, op, "w_io") /\ thr[t].conn = k

\* C28: every Read or Write that set a deadline on the socket clears it before
\* it returns, on success and on every failure (timeout, closed connection,
\* other error): no deadline of an operation is in force on a socket on which
\* no such operation is under way.
C28_DeadlineCleared ==
    \A k \in DOMAIN socks :
        /\ socks[k].rdl => InWindow("read", k)
        /\ socks[k].wdl => InWindow("write", k)

C28_Witness ==
    \E t \in Callers :
        /\ thr[t].pc = "idle"
        /\ thr[t].done.op = "write"
        /\ thr[t].done.err.cause = "ErrTimeout"
        /\ thr[t].conn # 0
        /\ socks[thr[t].conn].open
        /\ ~socks[thr[t].conn].wdl
        /\ ~socks[thr[t].conn].rdl

\* The connection c leaves checkAndUpdateRate in this step.
RateChecked(c) == conns[c].pc = "rate" /\ conns'[c].pc # "rate"

\* C26: every rate excess or failed PoW raises the source's difficulty by 1,
\* never above maxDifficulty (so three excesses in successive seconds give
\* 4, 5, 6, 7), and a valid PoW solution through the middleware lowers it by 1
\* toward the initial difficulty.
C26_AdaptiveDifficulty ==
    [][\A c \in Conns :
          LET ip == conns[c].ip
              before == getDifficultyLocked(difficulties, ip)
              after == getDifficultyLocked(difficulties', ip)
          IN /\ (RateChecked(c) /\ (conns'[c].ban \/ ~conns'[c].proceed)
                  /\ conns'[c].mwRes = "false") =>
                   after = IF before < maxDifficulty THEN before + 1 ELSE maxDifficulty
             /\ (RateChecked(c) /\ conns'[c].pow /\ conns'[c].mwRes = "true") =>
                   after = IF before > defaultInitialDifficulty THEN before - 1
                           ELSE defaultInitialDifficulty]_vars

\* C29: after any sequence of checkAndUpdateRate, increaseDifficulty,
\* decreaseDifficulty and Cleanup calls, getDifficulty(ip) is in
\* [defaultInitialDifficulty, maxDifficulty] for every ip, every stored
\* difficulty is in that range, and an absent entry reads as the initial
\* difficulty; increaseDifficulty at the maximum and decreaseDifficulty at the
\* initial difficulty stay in the range.
C29_DifficultyInRange ==
    /\ [](\A ip \in IPs :
            /\ getDifficultyLocked(difficulties, ip) \in defaultInitialDifficulty..maxDifficulty
            /\ ip \notin DOMAIN difficulties =>
                  getDifficultyLocked(difficulties, ip) = defaultInitialDifficulty)
    /\ [](\A ip \in DOMAIN difficulties :
            difficulties[ip] \in defaultInitialDifficulty..maxDifficulty)
    /\ [][\A ip \in IPs :
            LET before == getDifficultyLocked(difficulties, ip)
                after == getDifficultyLocked(difficulties', ip)
            IN after \in {before - 1, before, before + 1, defaultInitialDifficulty}]_vars

C29_Witness ==
    \E ip \in DOMAIN difficulties :
        /\ difficulties[ip] = maxDifficulty
        /\ increaseDifficulty(difficulties, ip) = difficulties
        /\ ip \in DOMAIN connectionsPerIP

\* C30: isBanned never removes a ban entry whose deadline is in the future:
\* when it saw an expired ban under the read lock and a new ban of the same IP
\* was installed before it took the write lock, the re-check under the write
\* lock leaves the new ban in place.
C30_LiveBanNotEvicted ==
    [][\A c \in Conns :
          (conns[c].pc \in {"mw", "banTime", "evict"} /\ conns'[c] # conns[c]) =>
             \A ip \in DOMAIN bannedIPs :
                 ~BanExpired(now, bannedIPs[ip]) =>
                    ip \in DOMAIN bannedIPs' /\ bannedIPs'[ip] = bannedIPs[ip]]_vars

C30_Witness ==
    \E c \in Conns :
        /\ conns[c].pc = "rate"
        /\ conns[c].expired
        /\ conns[c].kept
        /\ conns[c].ip \in DOMAIN bannedIPs
        /\ bannedIPs[conns[c].ip] > conns[c].banTime
        /\ ~BanExpired(now, bannedIPs[conns[c].ip])

\* C31: right after a cleanup pass no ban whose deadline has passed remains, no
\* counter whose window started more than 2 seconds ago remains, and every
\* difficulty entry left belongs to an IP with a counter or a ban; the pass
\* removes no ban whose deadline has not passed and no counter that is at most
\* 2 seconds old, and it changes no entry it keeps.
C31_CleanupEffect ==
    [][CleanupPass =>
        /\ \A ip \in DOMAIN bannedIPs' : now' <= bannedIPs'[ip]
        /\ \A ip \in DOMAIN connectionsPerIP' :
               now' - connectionsPerIP'[ip].timestamp <= 2 * TicksPerSec
        /\ \A ip \in DOMAIN difficulties' :
               ip \in DOMAIN connectionsPerIP' \/ ip \in DOMAIN bannedIPs'
        /\ \A ip \in DOMAIN bannedIPs :
               now <= bannedIPs[ip]
                   => ip \in DOMAIN bannedIPs' /\ bannedIPs'[ip] = bannedIPs[ip]
        /\ \A ip \in DOMAIN connectionsPerIP :
               now - connectionsPerIP[ip].timestamp <= 2 * TicksPerSec
                   => /\ ip \in DOMAIN connectionsPerIP'
                      /\ connectionsPerIP'[ip] = connectionsPerIP[ip]
        /\ \A ip \in DOMAIN difficulties' : difficulties'[ip] = difficulties[ip]
    ]_vars

\* A pass has removed an expired ban and kept a counter exactly 2 seconds old
\* together with the difficulty of its IP.
C31_Witness ==
    /\ cleaner.loop = "select"
    /\ cleaner.cleaned = <<1, 0, 0>>
    /\ \E ip \in DOMAIN connectionsPerIP :
          /\ now - connectionsPerIP[ip].timestamp = 2 * TicksPerSec
          /\ ip \in DOMAIN difficulties
          /\ ip \notin DOMAIN bannedIPs

\* C32: in every reachable state every difficulty entry belongs to an IP that
\* has a counter or a ban and no counter is more than 2 seconds older than its
\* windowStart; no step removes a ban before its deadline.
C32_Lifetimes ==
    /\ [](\A ip \in DOMAIN difficulties :
              ip \in DOMAIN connectionsPerIP \/ ip \in DOMAIN bannedIPs)
    /\ [](\A ip \in DOMAIN connectionsPerIP :
              now - connectionsPerIP[ip].timestamp <= 2 * TicksPerSec)
    /\ [][\A ip \in DOMAIN bannedIPs :
              ip \notin DOMAIN bannedIPs' => now > bannedIPs[ip]]_vars

\* C32 (amended): entries leave the maps only when they are due.  A ban is
\* removed only after its deadline.  A counter is removed only when it is more
\* than 2 seconds old (by a cleanup pass) or when its IP is banned in the same
\* step.  A difficulty entry is removed only when a new window opens for its IP,
\* when it is lowered from the initial difficulty, or when its IP is left with
\* neither counter nor ban.
C32_RemovedOnlyWhenDue ==
    [][/\ \A ip \in DOMAIN bannedIPs :
              ip \notin DOMAIN bannedIPs' => now > bannedIPs[ip]
       /\ \A ip \in DOMAIN connectionsPerIP :
              ip \notin DOMAIN connectionsPerIP'
                  => \/ now - connectionsPerIP[ip].timestamp > 2 * TicksPerSec
                     \/ /\ ip \in DOMAIN bannedIPs'
                        /\ bannedIPs'[ip] = now + banDurationSec * TicksPerSec
       /\ \A ip \in DOMAIN difficulties :
              ip \notin DOMAIN difficulties'
                  => \/ /\ ip \in DOMAIN connectionsPerIP'
                        /\ connectionsPerIP'[ip] = [count |-> 1, timestamp |-> now]
                     \/ difficulties[ip] = defaultInitialDifficulty
                     \/ ip \notin DOMAIN connectionsPerIP' /\ ip \notin DOMAIN bannedIPs'
    ]_vars

\* Between two cleanup passes: after one pass, a counter a whole ban period old
\* is still in the map, next to a ban that has expired.
C32_Witness ==
    /\ cleaner.loop = "select"
    /\ cleaner.cleaned # <<0, 0, 0>>
    /\ \E ip \in DOMAIN connectionsPerIP :
          /\ now - connectionsPerIP[ip].timestamp >= banDurationSec * TicksPerSec
          /\ ip \in DOMAIN difficulties

\* C33: once Stop has been called the cleanup loop eventually exits and Stop
\* eventually returns; Stop has returned only if the loop has exited and
\* signalled the wait group; no cleanup pass and no loop round starts after Stop
\* has returned.
C33_StopJoinsLoop ==
    /\ [](cleaner.stop = "returned" => cleaner.loop = "exited" /\ cleaner.wg = 0)
    /\ [][cleaner.stop = "returned" => ~CleanupPass /\ ~LoopTick]_vars
    /\ (cleaner.stop = "wait" ~> (cleaner.loop = "exited" /\ cleaner.stop = "returned"))

\* Stop has returned from a limiter whose loop had run a pass that removed a
\* counter.
C33_Witness ==
    /\ cleaner.stop = "returned"
    /\ cleaner.loop = "exited"
    /\ cleaner.cleaned[2] = 1

\* C34: when the handler or the middleware faults inside a per-connection task,
\* the task's exit decrements currentConns and activeConns, closes the
\* connection and signals the wait group, and the fault takes down neither the
\* process nor the acceptor nor the other handler tasks.
C34_FaultContained ==
    /\ [][\A c \in Conns :
            conns[c].pc = "panicking" /\ conns'[c].pc # "panicking"
                => /\ currentConns' = currentConns - 1
                   /\ activeConns' = activeConns - 1
                   /\ wg' = wg - 1
                   /\ ~conns'[c].open]_vars
    /\ [](life # "crashed" /\ acceptor # "gone" /\ \A c \in Conns : conns[c].pc # "gone")

\* C35: in ReadWithRetry, after a read that failed with a wrapped error that is
\* neither EOF nor connection-closed nor a broken pipe (a read timeout, say),
\* and with the scope still live, the wrapper sleeps and goes to the next round
\* of the loop (or returns after the last one) without calling Reconnect.
C35_RetriesWithoutReconnect ==
    [][\A t \in Callers :
          /\ At(t, "readRetry", "a_sleep")
          /\ AsConnectionError(thr[t].lastErr)
          /\ ~ReadReconnects(thr[t].lastErr)
          /\ ~Done(client.ctx)
          /\ thr'[t] # thr[t]
          => thr'[t] = NextRound(thr[t])]_vars

\* C36: with Connect and Close called concurrently on one client, a socket that
\* was dialled is, when its Connect returns, either the client's connection or
\* closed; an open socket is never lost (it is the client's connection or in
\* the hands of a Connect or Close that has not returned); a Connect that does
\* not install its socket returns an error; at most one Connect ever installs.
C36_DialledInstalledOrClosed ==
    /\ [][\A t \in Callers :
            At(t, "connect", "c_install") /\ thr'[t] # thr[t]
                => /\ \/ client'.conn = thr[t].conn /\ socks'[thr[t].conn].open
                      \/ client'.conn # thr[t].conn /\ ~socks'[thr[t].conn].open
                   /\ (thr'[t].done.err = NoErr) <=> (client'.conn = thr[t].conn)]_vars
    /\ [](\A k \in 1..Len(socks) :
            socks[k].open
                => \/ client.conn = k
                   \/ \E t \in Callers : /\ thr[t].conn = k
                                         /\ thr[t].pc \in {"c_install", "k_close"})
    /\ [][client'.conn # 0 /\ client'.conn # client.conn
            => client.conn = 0 /\ client.lastActivity = <<"new", 0>>]_vars

\* Both goroutines dialled; one Connect installed its socket, the other closed
\* its own and returned "connection established concurrently".
C36_Witness ==
    /\ Len(socks) = 2
    /\ client.conn # 0
    /\ socks[client.conn].open
    /\ \E t \in Callers :
          /\ thr[t].pc = "idle"
          /\ thr[t].done = [op |-> "connect",
                            err |-> wrapError("established concurrently", FALSE)]
          /\ \E k \in 1..2 : k # client.conn /\ ~socks[k].open /\ socks[k].closes = 1

\* C37: in every reachable state, whatever the interleaving of Connect, Close
\* and Reconnect on one client, a client that holds a connection has a current
\* context that is not cancelled.
C37_HandleHasLiveScope ==
    client.conn # 0 => ~ctxs[client.ctx]

\* C38: Close leaves the client without connection and with a cancelled
\* context; while the current context is cancelled and there is no connection,
\* every Connect fails with the context's cancellation error, installs nothing
\* and closes what it dialled; a cancelled current context is replaced by a live
\* one only by Reconnect.
C38_CancelledScopeRefusesConnect ==
    /\ [](client.cancel \in {0, client.ctx} /\ (client.cancel = 0 => ctxs[client.ctx]))
    /\ [][\A t \in Callers :
            At(t, "close", "k_swap") /\ thr'[t] # thr[t]
                => client'.conn = 0 /\ ctxs'[client'.ctx]]_vars
    /\ [][\A t \in Callers :
            /\ \E pc \in {"c_check", "c_dial", "c_install"} : At(t, "connect", pc)
            /\ ctxs[client.ctx] /\ client.conn = 0
            /\ thr'[t] # thr[t]
            => /\ client' = client
               /\ Len(socks') = Len(socks)
               /\ thr[t].pc = "c_install" => ~socks'[thr[t].conn].open
               /\ Len(thr[t].stack) = 1
                    => /\ thr'[t].pc = "idle"
                       /\ thr'[t].done = [op |-> "connect",
                                          err |-> wrapError("context.Canceled", FALSE)]]_vars
    /\ [][ctxs[client.ctx] /\ ~ctxs'[client'.ctx]
            => \E t \in Callers : At(t, "reconnect", "r_newctx") /\ thr'[t] # thr[t]]_vars

\* A client that was connected and closed, never reconnected: a plain Connect
\* has returned the cancellation error and the client has no connection.
C38_Witness ==
    /\ Len(ctxs) = 1 /\ ctxs[1]
    /\ client.conn = 0 /\ client.cancel = 0
    /\ Len(socks) = 1 /\ socks[1].closes = 1
    /\ \E t \in Callers :
          /\ thr[t].pc = "idle"
          /\ thr[t].done = [op |-> "connect", err |-> wrapError("context.Canceled", FALSE)]

\* C39: after StopWithTimeout has returned Timeout, the goroutine it started to
\* run Stop eventually terminates, once the handlers have exited.
C39_HelperTerminates == (swt = "timeout") ~> (Helper = "exited")

\* C40: Stop cannot deadlock with a handler that calls Stats or
\* SetMaxConnections: with handlers that return once their calls of the server
\* have returned, a Stop that waits for the handlers eventually returns.
C40_StopReturns == (stopper = "wait") ~> (stopper = "idle" /\ life = "stopped")

====
